---- MODULE Spec2Model ----
(***************************************************************************)
(* FIFO tax-lot ledger (tax_estimator.Portfolio) and its tax ledger        *)
(* (taxes.TaxBase), the construction of Portfolio objects, the outcome     *)
(* analysis of helpers.py and simulator.py, and the valuation loop of      *)
(* simulator.Simulation.                                                   *)
(*                                                                         *)
(* Spec           one ledger with its TaxBase                              *)
(* SpecTaxBase    a TaxBase called directly                                *)
(* SpecPortfolios several Portfolio objects and the TaxBase objects they   *)
(*                point to                                                 *)
(* SpecHelpers    the stateless functions on paths and cash amounts        *)
(* SpecSimulation Simulation.create_portfolio_valuations                   *)
(* SpecRuns       Simulation.run_simulation, called repeatedly             *)
(* SpecLoop       sell_net_volume, one iteration of its loop per step      *)
(* SpecQueries    the query methods of TaxBase and Portfolio               *)
(*                                                                         *)
(* Python floats are modelled as exact rationals <<numerator, denominator>>*)
(* in lowest terms with a positive denominator, so equalities below are    *)
(* equalities of real numbers; binary rounding error is not modelled.      *)
(***************************************************************************)
EXTENDS Integers, Sequences, FiniteSets, TLC

VARIABLES fifo, running_id, tax_base, last, nops, portfolios, heap, simulation

vars == <<fifo, running_id, tax_base, last, nops, portfolios, heap, simulation>>

(***************************************************************************)
(* Bounds of the model.                                                    *)
(***************************************************************************)
MaxOps == 3      \* calls on the ledger in one behaviour
MaxLots == 3     \* lots ever bought (running_id)
MaxTaxOps == 2   \* direct calls on the TaxBase in one behaviour
MaxPortfolios == 2      \* Portfolio objects constructed in one behaviour
MaxPortfolioOps == 3    \* constructor and ledger calls in one behaviour of SpecPortfolios
MaxPathLen == 3         \* periods of a path of portfolio values
MaxPaths == 2           \* paths in a list handed to analyze_survival_probability
MaxPeriods == 2         \* months of a simulation
MaxRuns == 2            \* largest n handed to run_simulation
MaxRunCalls == 2        \* calls of run_simulation in one behaviour

(***************************************************************************)
(* Rational arithmetic standing in for float arithmetic.                   *)
(***************************************************************************)
Abs(x) == IF x < 0 THEN -x ELSE x

RECURSIVE GCD(_, _)
GCD(a, b) == IF b = 0 THEN a ELSE GCD(b, a % b)

Rat(n, d) ==
    LET g == GCD(Abs(n), Abs(d))
        s == IF d < 0 THEN -1 ELSE 1
    IN  <<(s * n) \div g, (s * d) \div g>>

R(n) == <<n, 1>>
Zero == R(0)

RAdd(a, b) == Rat(a[1] * b[2] + b[1] * a[2], a[2] * b[2])
RSub(a, b) == Rat(a[1] * b[2] - b[1] * a[2], a[2] * b[2])
RMul(a, b) == Rat(a[1] * b[1], a[2] * b[2])
RDiv(a, b) == Rat(a[1] * b[2], a[2] * b[1])
RLt(a, b) == a[1] * b[2] < b[1] * a[2]
RLe(a, b) == a[1] * b[2] <= b[1] * a[2]
RMax(a, b) == IF RLt(a, b) THEN b ELSE a
RMin(a, b) == IF RLt(b, a) THEN b ELSE a
RAbs(a) == <<Abs(a[1]), a[2]>>

\* round(x, 2): nearest multiple of 1/100, ties to the even multiple
round2(x) ==
    LET n100 == 100 * x[1]
        q == n100 \div x[2]
        rem == n100 - q * x[2]
        up == \/ 2 * rem > x[2]
              \/ (2 * rem = x[2] /\ q % 2 = 1)
    IN  Rat(IF up THEN q + 1 ELSE q, 100)

\* math.isclose(a, b, rel_tol=1e-4): |a - b| <= 1e-4 * max(|a|, |b|)
RelTolInv == 10000
isclose(a, b) ==
    LET diff == RAbs(RSub(a, b))
    IN  RLe(RMul(R(RelTolInv), diff), RMax(RAbs(a), RAbs(b)))

(***************************************************************************)
(* taxes.TaxBase                                                           *)
(***************************************************************************)
TaxBase(e, l, w, r) ==
    [tax_exemption |-> e, loss_pot |-> l, withheld_taxes |-> w, tax_rate |-> r]

\* determine_taxable without the clamps at zero: gain minus loss pot minus exemption
determine_taxable_unclamped(tb, sale_price, historical_price, nr_shares) ==
    LET gain_loss == RMul(nr_shares, RSub(sale_price, historical_price))
    IN  RSub(RSub(gain_loss, tb.loss_pot), tb.tax_exemption)

determine_taxable(tb, sale_price, historical_price, nr_shares) ==
    LET gain_loss == RMul(nr_shares, RSub(sale_price, historical_price))
        residual_gain_loss == RMax(Zero, RSub(gain_loss, tb.loss_pot))
    IN  IF RLt(Zero, residual_gain_loss)
        THEN RMax(Zero, RSub(residual_gain_loss, tb.tax_exemption))
        ELSE Zero

calculate_taxes(tb, taxable, sale_price, nr_shares) ==
    LET taxes_abs == RMul(taxable, tb.tax_rate)
        volume == RMul(sale_price, nr_shares)
    IN  [abs |-> taxes_abs,
         rel |-> IF volume = Zero THEN Zero ELSE RDiv(taxes_abs, volume)]

determine_net_proceeds(tb, nr_shares, sale_price, historical_price) ==
    LET taxable == determine_taxable(tb, sale_price, historical_price, nr_shares)
        taxes_abs == calculate_taxes(tb, taxable, sale_price, nr_shares).abs
        gross_proceeds == RMul(nr_shares, sale_price)
    IN  RSub(gross_proceeds, taxes_abs)

\* adjust_taxbase_via_sale with the residual gain taken after the loss pot was
\* already reduced (statement order slip)
adjust_taxbase_via_sale_reordered(tb, sale_price, historical_price, nr_shares) ==
    LET taxable == determine_taxable(tb, sale_price, historical_price, nr_shares)
        taxes == calculate_taxes(tb, taxable, sale_price, nr_shares)
        gain_loss == RMul(nr_shares, RSub(sale_price, historical_price))
        loss_pot == RMax(Zero, RSub(tb.loss_pot, gain_loss))
        residual_gain_loss == RMax(Zero, RSub(gain_loss, loss_pot))
    IN  [tax_base |-> TaxBase(RMax(Zero, RSub(tb.tax_exemption, residual_gain_loss)),
                              loss_pot,
                              RAdd(tb.withheld_taxes, taxes.abs),
                              tb.tax_rate),
         result |-> [abs |-> taxes.abs, rel |-> taxes.rel, taxable |-> taxable]]

\* adjust_taxbase_via_sale with the loss pot reduced by the gain without the floor
\* at zero
adjust_taxbase_via_sale_loss_pot_unclamped(tb, sale_price, historical_price, nr_shares) ==
    LET taxable == determine_taxable(tb, sale_price, historical_price, nr_shares)
        taxes == calculate_taxes(tb, taxable, sale_price, nr_shares)
        gain_loss == RMul(nr_shares, RSub(sale_price, historical_price))
        residual_gain_loss == RMax(Zero, RSub(gain_loss, tb.loss_pot))
    IN  [tax_base |-> TaxBase(RMax(Zero, RSub(tb.tax_exemption, residual_gain_loss)),
                              RSub(tb.loss_pot, gain_loss),
                              RAdd(tb.withheld_taxes, taxes.abs),
                              tb.tax_rate),
         result |-> [abs |-> taxes.abs, rel |-> taxes.rel, taxable |-> taxable]]

\* adjust_taxbase_via_sale that leaves the loss pot alone when the sale is at a loss
adjust_taxbase_via_sale_loss_not_carried(tb, sale_price, historical_price, nr_shares) ==
    LET taxable == determine_taxable(tb, sale_price, historical_price, nr_shares)
        taxes == calculate_taxes(tb, taxable, sale_price, nr_shares)
        gain_loss == RMul(nr_shares, RSub(sale_price, historical_price))
        residual_gain_loss == RMax(Zero, RSub(gain_loss, tb.loss_pot))
    IN  [tax_base |-> TaxBase(RMax(Zero, RSub(tb.tax_exemption, residual_gain_loss)),
                              RMax(Zero, RSub(tb.loss_pot, RMax(Zero, gain_loss))),
                              RAdd(tb.withheld_taxes, taxes.abs),
                              tb.tax_rate),
         result |-> [abs |-> taxes.abs, rel |-> taxes.rel, taxable |-> taxable]]

\* adjust_taxbase_via_sale with the exemption reduced by the whole gain, so that
\* the part of the gain that the loss pot took is taken from the exemption again
adjust_taxbase_via_sale_gain_counted_twice(tb, sale_price, historical_price, nr_shares) ==
    LET taxable == determine_taxable(tb, sale_price, historical_price, nr_shares)
        taxes == calculate_taxes(tb, taxable, sale_price, nr_shares)
        gain_loss == RMul(nr_shares, RSub(sale_price, historical_price))
    IN  [tax_base |-> TaxBase(RMax(Zero, RSub(tb.tax_exemption, RMax(Zero, gain_loss))),
                              RMax(Zero, RSub(tb.loss_pot, gain_loss)),
                              RAdd(tb.withheld_taxes, taxes.abs),
                              tb.tax_rate),
         result |-> [abs |-> taxes.abs, rel |-> taxes.rel, taxable |-> taxable]]

adjust_taxbase_via_sale(tb, sale_price, historical_price, nr_shares) ==
    LET taxable == determine_taxable(tb, sale_price, historical_price, nr_shares)
        taxes == calculate_taxes(tb, taxable, sale_price, nr_shares)
        withheld_taxes == RAdd(tb.withheld_taxes, taxes.abs)
        gain_loss == RMul(nr_shares, RSub(sale_price, historical_price))
        residual_gain_loss == RMax(Zero, RSub(gain_loss, tb.loss_pot))
        loss_pot == RMax(Zero, RSub(tb.loss_pot, gain_loss))
        tax_exemption == RMax(Zero, RSub(tb.tax_exemption, residual_gain_loss))
    IN  [tax_base |-> TaxBase(tax_exemption, loss_pot, withheld_taxes, tb.tax_rate),
         result |-> [abs |-> taxes.abs, rel |-> taxes.rel, taxable |-> taxable]]

\* a Python argument with its run-time type; value is a rational for the number
\* types and a string otherwise
PyValue(type, value) == [type |-> type, value |-> value]

\* isinstance(adjustment, (int, float))
isinstance_int_or_float(adjustment) == adjustment.type \in {"int", "float"}

adjust_tax_exemption_unchecked(tb, adjustment) ==
    IF ~isinstance_int_or_float(adjustment)
    THEN [tax_base |-> tb, raised |-> "ValueError"]
    ELSE [tax_base |-> [tb EXCEPT !.tax_exemption = RAdd(@, adjustment.value)],
          raised |-> "none"]

adjust_tax_exemption(tb, adjustment) ==
    IF ~isinstance_int_or_float(adjustment)
    THEN [tax_base |-> tb, raised |-> "ValueError"]
    ELSE IF RLt(adjustment.value, RSub(Zero, tb.tax_exemption))
    THEN [tax_base |-> tb, raised |-> "ValueError"]
    ELSE [tax_base |-> [tb EXCEPT !.tax_exemption = RAdd(@, adjustment.value)],
          raised |-> "none"]

\* helpers.validate_positive_numbers: TRUE when it raises ValueError
validate_positive_numbers_raises(positive_numbers) ==
    \/ positive_numbers = <<>>
    \/ \E i \in 1..Len(positive_numbers) : RLe(positive_numbers[i], Zero)

\* the share count nr_shares_for_net_proceeds arrives at before its checks
req_shares_for(tb, target_net_proceeds, sale_price, historical_price) ==
    IF RLt(sale_price, historical_price)
    THEN RDiv(target_net_proceeds, sale_price)
    ELSE LET req_shares_without_taxation == RDiv(target_net_proceeds, sale_price)
             resulting_gain == RMul(req_shares_without_taxation,
                                    RSub(sale_price, historical_price))
             allowance == RAdd(tb.tax_exemption, tb.loss_pot)
         IN  IF RLe(resulting_gain, allowance)
             THEN req_shares_without_taxation
             ELSE LET req_shares == RDiv(allowance, RSub(sale_price, historical_price))
                      net_proceeds == RMul(req_shares, sale_price)
                      remaining_net_proceeds == RSub(target_net_proceeds, net_proceeds)
                      additional_req_shares ==
                          RDiv(remaining_net_proceeds,
                               RSub(sale_price,
                                    RMul(RSub(sale_price, historical_price), tb.tax_rate)))
                  IN  RAdd(req_shares, additional_req_shares)

\* nr_shares_for_net_proceeds with the loss pot left out of the tax-free allowance
nr_shares_for_net_proceeds_no_loss_pot(tb, target_net_proceeds, sale_price, historical_price) ==
    IF validate_positive_numbers_raises(<<target_net_proceeds, sale_price, historical_price>>)
    THEN [raised |-> "ValueError", value |-> Zero]
    ELSE LET req_shares == req_shares_for([tb EXCEPT !.loss_pot = Zero],
                                          target_net_proceeds, sale_price, historical_price)
             net_proceeds == determine_net_proceeds(tb, req_shares, sale_price, historical_price)
         IN  IF ~isclose(net_proceeds, target_net_proceeds)
             THEN [raised |-> "ValueError", value |-> Zero]
             ELSE IF RLt(req_shares, Zero)
             THEN [raised |-> "ValueError", value |-> Zero]
             ELSE [raised |-> "none", value |-> req_shares]

nr_shares_for_net_proceeds(tb, target_net_proceeds, sale_price, historical_price) ==
    IF validate_positive_numbers_raises(<<target_net_proceeds, sale_price, historical_price>>)
    THEN [raised |-> "ValueError", value |-> Zero]
    ELSE LET req_shares == req_shares_for(tb, target_net_proceeds, sale_price, historical_price)
             taxable == determine_taxable(tb, sale_price, historical_price, req_shares)
             taxes_abs == calculate_taxes(tb, taxable, sale_price, req_shares).abs
             net_proceeds == RSub(RMul(req_shares, sale_price), taxes_abs)
         IN  IF ~isclose(net_proceeds, target_net_proceeds)
             THEN [raised |-> "ValueError", value |-> Zero]
             ELSE IF RLt(req_shares, Zero)
             THEN [raised |-> "ValueError", value |-> Zero]
             ELSE [raised |-> "none", value |-> req_shares]

(***************************************************************************)
(* tax_estimator.Portfolio                                                 *)
(***************************************************************************)
Lot(id, nr_shares, historical_price) ==
    [id |-> id, shares |-> nr_shares, price |-> historical_price]

Transaction(nr_shares, historical_price, sale_price) ==
    [shares |-> nr_shares, historical_price |-> historical_price, sale_price |-> sale_price]

\* transactions[key] = [historical_price, sale_price] on an OrderedDict keyed by
\* the share count: an existing key keeps its position and gets the new value
dict_set(transactions, key, historical_price, sale_price) ==
    IF \E i \in 1..Len(transactions) : transactions[i].shares = key
    THEN [i \in 1..Len(transactions) |->
            IF transactions[i].shares = key
            THEN Transaction(key, historical_price, sale_price)
            ELSE transactions[i]]
    ELSE Append(transactions, Transaction(key, historical_price, sale_price))

RECURSIVE sum_shares(_)
sum_shares(lots) ==
    IF lots = <<>> THEN Zero ELSE RAdd(Head(lots).shares, sum_shares(Tail(lots)))

determine_available_shares(f) == sum_shares(f)

determine_next_available_net_proceeds(f, tb, sale_price) ==
    LET lot == Head(f)
    IN  determine_net_proceeds(tb, lot.shares, sale_price, lot.price)

\* buy_shares that numbers the new lot by the count of lots in the ledger, so that
\* the id of a lot that was sold is handed out again
buy_shares_id_from_ledger_size(f, id, nr_shares, historical_price) ==
    [fifo |-> Append(f, Lot(Len(f) + 1, nr_shares, historical_price)),
     running_id |-> Len(f) + 1]

buy_shares(f, id, nr_shares, historical_price) ==
    [fifo |-> Append(f, Lot(id + 1, nr_shares, historical_price)), running_id |-> id + 1]

\* the while loop of sell_shares with popitem() left at its default (last=True):
\* a lot that is consumed whole is taken from the tail
RECURSIVE sell_shares_loop_pop_last(_, _, _, _, _)
sell_shares_loop_pop_last(f, shares_sold, nr_shares, sale_price, transactions) ==
    IF ~RLt(shares_sold, nr_shares)
    THEN [fifo |-> f, transactions |-> transactions, raised |-> "none"]
    ELSE IF f = <<>>
    THEN [fifo |-> f, transactions |-> transactions, raised |-> "StopIteration"]
    ELSE LET lot == Head(f)
             tail == f[Len(f)]
         IN  IF RLt(nr_shares, RAdd(shares_sold, lot.shares))
             THEN LET shares_to_be_sold == RSub(nr_shares, shares_sold)
                  IN  sell_shares_loop_pop_last(
                          <<Lot(lot.id, RSub(lot.shares, shares_to_be_sold), lot.price)>>
                              \o Tail(f),
                          RAdd(shares_sold, shares_to_be_sold), nr_shares, sale_price,
                          dict_set(transactions, shares_to_be_sold, lot.price, sale_price))
             ELSE sell_shares_loop_pop_last(
                          SubSeq(f, 1, Len(f) - 1),
                          RAdd(shares_sold, tail.shares), nr_shares, sale_price,
                          dict_set(transactions, tail.shares, tail.price, sale_price))

\* the while loop of sell_shares: consume lots from the head until nr_shares are sold
RECURSIVE sell_shares_loop(_, _, _, _, _)
sell_shares_loop(f, shares_sold, nr_shares, sale_price, transactions) ==
    IF ~RLt(shares_sold, nr_shares)
    THEN [fifo |-> f, transactions |-> transactions, raised |-> "none"]
    ELSE IF f = <<>>
    THEN [fifo |-> f, transactions |-> transactions, raised |-> "StopIteration"]
    ELSE LET lot == Head(f)
         IN  IF RLt(nr_shares, RAdd(shares_sold, lot.shares))
             THEN LET shares_to_be_sold == RSub(nr_shares, shares_sold)
                  IN  sell_shares_loop(
                          <<Lot(lot.id, RSub(lot.shares, shares_to_be_sold), lot.price)>>
                              \o Tail(f),
                          RAdd(shares_sold, shares_to_be_sold), nr_shares, sale_price,
                          dict_set(transactions, shares_to_be_sold, lot.price, sale_price))
             ELSE sell_shares_loop(
                          Tail(f),
                          RAdd(shares_sold, lot.shares), nr_shares, sale_price,
                          dict_set(transactions, lot.shares, lot.price, sale_price))

\* the for loop of sell_shares: one adjust_taxbase_via_sale per returned entry
RECURSIVE adjust_for_transactions(_, _, _)
adjust_for_transactions(tb, transactions, sale_price) ==
    IF transactions = <<>>
    THEN tb
    ELSE adjust_for_transactions(
             adjust_taxbase_via_sale(tb, sale_price, Head(transactions).historical_price,
                                     Head(transactions).shares).tax_base,
             Tail(transactions), sale_price)

\* a StopIteration leaves the while loop before the tax loop and before the return
sell_shares(f, tb, nr_shares, sale_price) ==
    LET r == sell_shares_loop(f, Zero, nr_shares, sale_price, <<>>)
    IN  IF r.raised # "none"
        THEN [fifo |-> r.fifo, tax_base |-> tb, transactions |-> <<>>, raised |-> r.raised]
        ELSE [fifo |-> r.fifo,
              tax_base |-> adjust_for_transactions(tb, r.transactions, sale_price),
              transactions |-> r.transactions,
              raised |-> "none"]

sell_gross_volume(f, tb, gross_proceeds, sale_price) ==
    IF sale_price = Zero
    THEN [fifo |-> f, tax_base |-> tb, transactions |-> <<>>, raised |-> "ZeroDivisionError"]
    ELSE sell_shares(f, tb, RDiv(gross_proceeds, sale_price), sale_price)

\* the except StopIteration branch of sell_net_volume with fifo_copy bound to the
\* live mapping instead of a copy: restoring it restores nothing
on_stop_iteration_aliased(f, tb, sale_transactions, partial_sale, fifo_copy) ==
    IF partial_sale
    THEN [fifo |-> f, tax_base |-> tb, transactions |-> sale_transactions,
          raised |-> "none", outcome |-> "partial"]
    ELSE [fifo |-> f, tax_base |-> tb, transactions |-> <<>>,
          raised |-> "none", outcome |-> "rolled_back"]

\* the except StopIteration branch of sell_net_volume
on_stop_iteration(f, tb, sale_transactions, partial_sale, fifo_copy) ==
    IF partial_sale
    THEN [fifo |-> f, tax_base |-> tb, transactions |-> sale_transactions,
          raised |-> "none", outcome |-> "partial"]
    ELSE [fifo |-> fifo_copy, tax_base |-> tb, transactions |-> <<>>,
          raised |-> "none", outcome |-> "rolled_back"]

\* the while loop of sell_net_volume
RECURSIVE sell_net_volume_loop(_, _, _, _, _, _, _, _)
sell_net_volume_loop(f, tb, net_proceeds, sale_transactions, target_net_proceeds, sale_price, partial_sale, fifo_copy) ==
    IF ~RLt(round2(net_proceeds), round2(target_net_proceeds))
    THEN [fifo |-> f, tax_base |-> tb, transactions |-> sale_transactions,
          raised |-> "none", outcome |-> "reached"]
    ELSE IF RLt(sale_price, Zero)
         \* determine_next_available_net_proceeds rejects a negative sale price
         \* before it looks at the head lot; the ValueError is not caught
    THEN [fifo |-> f, tax_base |-> tb, transactions |-> <<>>,
          raised |-> "ValueError", outcome |-> "raised"]
    ELSE IF f = <<>>
    THEN on_stop_iteration(f, tb, sale_transactions, partial_sale, fifo_copy)
    ELSE LET available_net_proceeds == determine_next_available_net_proceeds(f, tb, sale_price)
             next_available_nr_shares == Head(f).shares
             historical_price == Head(f).price
         IN  IF RLe(target_net_proceeds, RAdd(net_proceeds, available_net_proceeds))
             THEN LET n == nr_shares_for_net_proceeds(tb, target_net_proceeds, sale_price,
                                                      historical_price)
                      sold == sell_shares(f, tb, n.value, sale_price)
                  IN  IF n.raised # "none"
                      THEN [fifo |-> f, tax_base |-> tb, transactions |-> <<>>,
                            raised |-> n.raised, outcome |-> "raised"]
                      ELSE IF sold.raised # "none"
                      THEN on_stop_iteration(sold.fifo, sold.tax_base, sale_transactions,
                                             partial_sale, fifo_copy)
                      ELSE sell_net_volume_loop(
                               sold.fifo, sold.tax_base,
                               RAdd(net_proceeds,
                                    determine_net_proceeds(tb, n.value, sale_price,
                                                           historical_price)),
                               dict_set(sale_transactions, n.value, historical_price,
                                        sale_price),
                               target_net_proceeds, sale_price, partial_sale, fifo_copy)
             ELSE LET shares_to_sell == next_available_nr_shares
                      sold == sell_shares(f, tb, shares_to_sell, sale_price)
                  IN  IF sold.raised # "none"
                      THEN on_stop_iteration(sold.fifo, sold.tax_base, sale_transactions,
                                             partial_sale, fifo_copy)
                      ELSE sell_net_volume_loop(
                               sold.fifo, sold.tax_base,
                               RAdd(net_proceeds,
                                    determine_net_proceeds(tb, shares_to_sell, sale_price,
                                                           historical_price)),
                               dict_set(sale_transactions, shares_to_sell, historical_price,
                                        sale_price),
                               target_net_proceeds, sale_price, partial_sale, fifo_copy)

sell_net_volume(f, tb, target_net_proceeds, sale_price, partial_sale) ==
    sell_net_volume_loop(f, tb, Zero, <<>>, target_net_proceeds, sale_price, partial_sale, f)

(***************************************************************************)
(* Construction of Portfolio objects.  Objects of class TaxBase live in    *)
(* heap and a Portfolio holds the address of its TaxBase.                  *)
(***************************************************************************)
\* TaxBase() with the defaults of its fields
DefaultTaxBase == TaxBase(R(1000), Zero, Zero, Rat(26375, 100000))

\* address of the TaxBase that the body of class Portfolio creates, once, as the
\* default value of the field tax_base
ClassDefaultTaxBase == 1

\* a Portfolio object: its fields, and whether its constructor was given a tax_base
Portfolio(f, id, address, tax_base_given) ==
    [fifo |-> f, running_id |-> id, tax_base |-> address, tax_base_given |-> tax_base_given]

set_up(f, id, initial_portfolio_value, initial_perc_gain) ==
    LET arbitrary_share_price == R(100)
        nr_shares == RDiv(initial_portfolio_value, arbitrary_share_price)
    IN  IF RAdd(R(1), initial_perc_gain) = Zero
        THEN [fifo |-> f, running_id |-> id, raised |-> "ZeroDivisionError"]
        ELSE LET historical_price ==
                     RDiv(arbitrary_share_price, RAdd(R(1), initial_perc_gain))
                 bought == buy_shares(f, id, nr_shares, historical_price)
             IN  [fifo |-> bought.fifo, running_id |-> bought.running_id,
                  raised |-> "none"]

\* __post_init__: the lot is set up before initial_perc_gain is checked
post_init(initial_portfolio_value, initial_perc_gain) ==
    LET s == IF RLt(Zero, initial_portfolio_value)
             THEN set_up(<<>>, 0, initial_portfolio_value, initial_perc_gain)
             ELSE IF RLt(initial_portfolio_value, Zero)
             THEN [fifo |-> <<>>, running_id |-> 0, raised |-> "ValueError"]
             ELSE [fifo |-> <<>>, running_id |-> 0, raised |-> "none"]
    IN  IF s.raised # "none"
        THEN s
        ELSE IF RLe(initial_perc_gain, R(-1))
        THEN [fifo |-> s.fifo, running_id |-> s.running_id, raised |-> "ValueError"]
        ELSE s

(***************************************************************************)
(* State machine: one ledger with its TaxBase; every action is one call.   *)
(* last records the most recent call: its arguments, the state it started  *)
(* from, what it returned and what it raised.                              *)
(***************************************************************************)
(***************************************************************************)
(* Inputs of the calls.  Cost prices 1 and 2 against sale prices 1, 2, 3   *)
(* give sales at a loss, at par and at a gain of 1 or 2 per share.         *)
(***************************************************************************)
TaxRates == {Rat(1, 4)}
BuyAmounts == {1, 2}
Prices == {1, 2}
SalePrices == {1, 2, 3}
SellAmounts == {1, 2, 3, 4}
GrossAmounts == {1, 2, 3}
TargetNets == {0, 1, 2, 3, 4, 5}
InitialExemptions == {0, 1}
InitialLossPots == {0}
TaxBaseExemptions == {0, 1, 2, 3}
TaxBaseLossPots == {0, 1, 2}
TaxBaseShares == {0, 1, 2}
TaxBaseRates == {Rat(0, 1), Rat(1, 4), Rat(1, 2)}
Adjustments ==
    {PyValue("int", R(d)) : d \in {-4, -2, -1, 0, 1}}
        \cup {PyValue("float", Rat(d, 2)) : d \in {-3, -1, 1}}
        \cup {PyValue("str", "100"), PyValue("NoneType", "None")}

\* Investor(...) with the defaults of its fields
Investor ==
    [living_expenses |-> R(4000), target_investment_amount |-> R(4000),
     investment_cap |-> TRUE, tax_rate |-> Rat(5, 100), current_portfolio_value |-> R(200000)]

\* a Simulation after __init__ and after its cash flows were added: net_cashflows is
\* the net cash flow of each month from starting_date to ending_date, and
\* rows_are_views says how the pandas at hand treats the rows of df.iterrows()
Simulation(net_cashflows, rows_are_views) ==
    [net_cashflows |-> net_cashflows, investor |-> Investor,
     rows_are_views |-> rows_are_views,
     schedule_created |-> FALSE, investments_disinvestments |-> <<>>,
     results |-> <<>>]

NoSimulation == Simulation(<<>>, FALSE)

Call(op, amount, sale_price, historical_price, partial_sale, transactions, raised, outcome, value) ==
    [op |-> op, amount |-> amount, sale_price |-> sale_price,
     historical_price |-> historical_price, partial_sale |-> partial_sale,
     fifo_before |-> fifo, tax_base_before |-> tax_base, running_id_before |-> running_id,
     transactions |-> transactions, raised |-> raised, outcome |-> outcome,
     value |-> value]

NoCall ==
    [op |-> "init", amount |-> Zero, sale_price |-> Zero,
     historical_price |-> Zero, partial_sale |-> FALSE,
     fifo_before |-> <<>>, tax_base_before |-> TaxBase(Zero, Zero, Zero, Zero),
     running_id_before |-> 0, transactions |-> <<>>, raised |-> "none",
     outcome |-> "none", value |-> Zero]

Init ==
    /\ fifo = <<>>
    /\ running_id = 0
    /\ tax_base \in {TaxBase(R(e), R(l), Zero, r) :
                        e \in InitialExemptions, l \in InitialLossPots, r \in TaxRates}
    /\ last = NoCall
    /\ nops = 0
    /\ portfolios = <<>>
    /\ heap = <<>>
    /\ simulation = NoSimulation

BuyShares(nr_shares, historical_price) ==
    /\ nops < MaxOps
    /\ running_id < MaxLots
    /\ \E r \in {buy_shares(fifo, running_id, nr_shares, historical_price)} :
           /\ fifo' = r.fifo
           /\ running_id' = r.running_id
    /\ last' = Call("buy_shares", nr_shares, Zero, historical_price, FALSE, <<>>,
                    "none", "none", Zero)
    /\ nops' = nops + 1
    /\ UNCHANGED <<tax_base, portfolios, heap, simulation>>

SellShares(nr_shares, sale_price) ==
    /\ nops < MaxOps
    /\ \E r \in {sell_shares(fifo, tax_base, nr_shares, sale_price)} :
           /\ fifo' = r.fifo
           /\ tax_base' = r.tax_base
           /\ last' = Call("sell_shares", nr_shares, sale_price, Zero, FALSE,
                           r.transactions, r.raised, "none", Zero)
    /\ nops' = nops + 1
    /\ UNCHANGED <<running_id, portfolios, heap, simulation>>

SellGrossVolume(gross_proceeds, sale_price) ==
    /\ nops < MaxOps
    /\ \E r \in {sell_gross_volume(fifo, tax_base, gross_proceeds, sale_price)} :
           /\ fifo' = r.fifo
           /\ tax_base' = r.tax_base
           /\ last' = Call("sell_gross_volume", gross_proceeds, sale_price, Zero, FALSE,
                           r.transactions, r.raised, "none", Zero)
    /\ nops' = nops + 1
    /\ UNCHANGED <<running_id, portfolios, heap, simulation>>

SellNetVolume(target_net_proceeds, sale_price, partial_sale) ==
    /\ nops < MaxOps
    /\ \E r \in {sell_net_volume(fifo, tax_base, target_net_proceeds, sale_price,
                partial_sale)} :
           /\ fifo' = r.fifo
           /\ tax_base' = r.tax_base
           /\ last' = Call("sell_net_volume", target_net_proceeds, sale_price, Zero,
                           partial_sale, r.transactions, r.raised, r.outcome, Zero)
    /\ nops' = nops + 1
    /\ UNCHANGED <<running_id, portfolios, heap, simulation>>

AdjustTaxbaseViaSale(sale_price, historical_price, nr_shares) ==
    /\ nops < MaxTaxOps
    /\ \E r \in {adjust_taxbase_via_sale(tax_base, sale_price, historical_price, nr_shares)} :
           /\ tax_base' = r.tax_base
           /\ last' = Call("adjust_taxbase_via_sale", nr_shares, sale_price,
                           historical_price, FALSE, <<>>, "none", "none", r.result.taxable)
    /\ nops' = nops + 1
    /\ UNCHANGED <<fifo, running_id, portfolios, heap, simulation>>

NrSharesForNetProceeds(target_net_proceeds, sale_price, historical_price) ==
    /\ nops < MaxTaxOps
    /\ \E r \in {nr_shares_for_net_proceeds(tax_base, target_net_proceeds, sale_price,
                historical_price)} :
           last' = Call("nr_shares_for_net_proceeds", target_net_proceeds, sale_price,
                        historical_price, FALSE, <<>>, r.raised, "none", r.value)
    /\ nops' = nops + 1
    /\ UNCHANGED <<fifo, running_id, tax_base, portfolios, heap, simulation>>

DetermineTaxable(sale_price, historical_price, nr_shares) ==
    /\ nops < MaxTaxOps
    /\ last' = Call("determine_taxable", nr_shares, sale_price, historical_price, FALSE,
                    <<>>, "none", "none",
                    determine_taxable(tax_base, sale_price, historical_price, nr_shares))
    /\ nops' = nops + 1
    /\ UNCHANGED <<fifo, running_id, tax_base, portfolios, heap, simulation>>

Next ==
    \/ \E n \in BuyAmounts, p \in Prices : BuyShares(R(n), R(p))
    \/ \E k \in SellAmounts, sp \in SalePrices : SellShares(R(k), R(sp))
    \/ \E g \in GrossAmounts, sp \in SalePrices : SellGrossVolume(R(g), R(sp))
    \/ \E t \in TargetNets, sp \in SalePrices, partial \in BOOLEAN :
           SellNetVolume(R(t), R(sp), partial)

Spec == Init /\ [][Next]_vars

(***************************************************************************)
(* TaxBase on its own: the ledger stays empty, the TaxBase starts from any *)
(* of a range of balances and is called directly.                          *)
(***************************************************************************)
InitTaxBase ==
    /\ fifo = <<>>
    /\ running_id = 0
    /\ tax_base \in {TaxBase(R(e), R(l), Zero, r) :
                        e \in TaxBaseExemptions, l \in TaxBaseLossPots, r \in TaxBaseRates}
    /\ last = NoCall
    /\ nops = 0
    /\ portfolios = <<>>
    /\ heap = <<>>
    /\ simulation = NoSimulation

AdjustTaxExemption(adjustment) ==
    /\ nops < MaxTaxOps
    /\ \E r \in {adjust_tax_exemption(tax_base, adjustment)} :
           /\ tax_base' = r.tax_base
           /\ last' = Call("adjust_tax_exemption", adjustment, Zero, Zero, FALSE, <<>>,
                           r.raised, "none", Zero)
    /\ nops' = nops + 1
    /\ UNCHANGED <<fifo, running_id, portfolios, heap, simulation>>

NextTaxBase ==
    \/ \E sp \in SalePrices, hp \in Prices, n \in TaxBaseShares :
           AdjustTaxbaseViaSale(R(sp), R(hp), R(n))
    \/ \E t \in TargetNets, sp \in SalePrices, hp \in Prices :
           NrSharesForNetProceeds(R(t), R(sp), R(hp))
    \/ \E sp \in SalePrices, hp \in Prices, n \in TaxBaseShares :
           DetermineTaxable(R(sp), R(hp), R(n))
    \/ \E adjustment \in Adjustments : AdjustTaxExemption(adjustment)

SpecTaxBase == InitTaxBase /\ [][NextTaxBase]_vars

(***************************************************************************)
(* Portfolio objects from their construction on: each call of the          *)
(* constructor that succeeds adds a Portfolio, and shares are bought and   *)
(* sold on any of them.  The sale of a Portfolio works on the TaxBase its  *)
(* field tax_base points to.                                               *)
(***************************************************************************)
InitialPortfolioValues == {-100, 0, 2000}
InitialPercGains == {Rat(-3, 2), R(-1), Zero, Rat(1, 4)}
PortfolioBuyAmounts == {10}
PortfolioBuyPrices == {100}
PortfolioSellAmounts == {10, 20}
PortfolioSalePrices == {150}

PortfolioCall(op, portfolio, amount, price, initial_portfolio_value, initial_perc_gain, tax_base_given, raised) ==
    [op |-> op, portfolio |-> portfolio, amount |-> amount, price |-> price,
     initial_portfolio_value |-> initial_portfolio_value,
     initial_perc_gain |-> initial_perc_gain, tax_base_given |-> tax_base_given,
     portfolios_before |-> portfolios, heap_before |-> heap, raised |-> raised]

\* the module is imported: the class body has created the default TaxBase
InitPortfolios ==
    /\ fifo = <<>>
    /\ running_id = 0
    /\ tax_base = DefaultTaxBase
    /\ last = NoCall
    /\ nops = 0
    /\ portfolios = <<>>
    /\ heap = <<DefaultTaxBase>>
    /\ simulation = NoSimulation

\* Portfolio(initial_portfolio_value=..., initial_perc_gain=...) when tax_base_given
\* is FALSE, Portfolio(tax_base=TaxBase(), ...) when it is TRUE
NewPortfolio(tax_base_given, initial_portfolio_value, initial_perc_gain) ==
    /\ nops < MaxPortfolioOps
    /\ Len(portfolios) < MaxPortfolios
    /\ \E r \in {post_init(initial_portfolio_value, initial_perc_gain)} :
           /\ heap' = IF tax_base_given THEN Append(heap, DefaultTaxBase) ELSE heap
           /\ portfolios' =
                  IF r.raised = "none"
                  THEN Append(portfolios,
                              Portfolio(r.fifo, r.running_id,
                                        IF tax_base_given
                                        THEN Len(heap) + 1
                                        ELSE ClassDefaultTaxBase,
                                        tax_base_given))
                  ELSE portfolios
           /\ last' = PortfolioCall("Portfolio", Len(portfolios) + 1, Zero, Zero,
                                    initial_portfolio_value, initial_perc_gain,
                                    tax_base_given, r.raised)
    /\ nops' = nops + 1
    /\ UNCHANGED <<fifo, running_id, tax_base, simulation>>

BuySharesOn(i, nr_shares, historical_price) ==
    /\ nops < MaxPortfolioOps
    /\ i \in 1..Len(portfolios)
    /\ portfolios[i].running_id < MaxLots
    /\ \E r \in {buy_shares(portfolios[i].fifo, portfolios[i].running_id, nr_shares,
                             historical_price)} :
           portfolios' = [portfolios EXCEPT ![i].fifo = r.fifo,
                                            ![i].running_id = r.running_id]
    /\ last' = PortfolioCall("buy_shares", i, nr_shares, historical_price, Zero, Zero,
                             FALSE, "none")
    /\ nops' = nops + 1
    /\ UNCHANGED <<fifo, running_id, tax_base, heap, simulation>>

SellSharesOn(i, nr_shares, sale_price) ==
    /\ nops < MaxPortfolioOps
    /\ i \in 1..Len(portfolios)
    /\ \E r \in {sell_shares(portfolios[i].fifo, heap[portfolios[i].tax_base], nr_shares,
                              sale_price)} :
           /\ portfolios' = [portfolios EXCEPT ![i].fifo = r.fifo]
           /\ heap' = [heap EXCEPT ![portfolios[i].tax_base] = r.tax_base]
           /\ last' = PortfolioCall("sell_shares", i, nr_shares, sale_price, Zero, Zero,
                                    FALSE, r.raised)
    /\ nops' = nops + 1
    /\ UNCHANGED <<fifo, running_id, tax_base, simulation>>

NextPortfolios ==
    \/ \E given \in BOOLEAN, v \in InitialPortfolioValues, g \in InitialPercGains :
           NewPortfolio(given, R(v), g)
    \/ \E i \in 1..MaxPortfolios, n \in PortfolioBuyAmounts, p \in PortfolioBuyPrices :
           BuySharesOn(i, R(n), R(p))
    \/ \E i \in 1..MaxPortfolios, k \in PortfolioSellAmounts, sp \in PortfolioSalePrices :
           SellSharesOn(i, R(k), R(sp))

SpecPortfolios == InitPortfolios /\ [][NextPortfolios]_vars

(***************************************************************************)
(* Outcome analysis (helpers.py and the copies of the same functions in    *)
(* simulator.py).  A pd.Series of portfolio values is a sequence of        *)
(* numbers; its positions are counted from 0 as numpy counts them.         *)
(***************************************************************************)
\* helpers.determine_survival: (series.values > 0).all()
determine_survival(series) == \A i \in 1..Len(series) : series[i] > 0

\* simulator.determine_survival: (series >= 0).all()
simulator_determine_survival(series) == \A i \in 1..Len(series) : series[i] >= 0

\* series.lt(0).to_numpy()
lt_0(series) == [i \in 1..Len(series) |-> series[i] < 0]

\* np.argmax of a non-empty boolean array: the position of the first maximum, which
\* is the first True, or position 0 when every entry is False
argmax(booleans) ==
    IF \E i \in 1..Len(booleans) : booleans[i]
    THEN (CHOOSE i \in 1..Len(booleans) :
              booleans[i] /\ \A j \in 1..(i - 1) : ~booleans[j]) - 1
    ELSE 0

nan == PyValue("float", "nan")

\* helpers.determine_portfolio_death
determine_portfolio_death(series) ==
    IF determine_survival(series)
    THEN nan
    ELSE PyValue("int", argmax(lt_0(series)))

\* simulator.determine_portfolio_death
simulator_determine_portfolio_death(series) ==
    IF simulator_determine_survival(series)
    THEN nan
    ELSE PyValue("int", argmax(lt_0(series)))

\* sum(survivals): the number of True entries
RECURSIVE sum_survivals(_)
sum_survivals(survivals) ==
    IF survivals = <<>>
    THEN 0
    ELSE (IF Head(survivals) THEN 1 ELSE 0) + sum_survivals(Tail(survivals))

analyze_survival_probability_of_first_path(list_of_pf_valuations) ==
    IF list_of_pf_valuations = <<>>
    THEN [raised |-> "ValueError", value |-> Zero]
    ELSE [raised |-> "none",
          value |-> IF determine_survival(list_of_pf_valuations[1]) THEN R(1) ELSE Zero]

\* helpers.analyze_survival_probability
analyze_survival_probability(list_of_pf_valuations) ==
    IF list_of_pf_valuations = <<>>
    THEN [raised |-> "ValueError", value |-> Zero]
    ELSE LET survivals == [i \in 1..Len(list_of_pf_valuations) |->
                             determine_survival(list_of_pf_valuations[i])]
         IN  [raised |-> "none", value |-> Rat(sum_survivals(survivals), Len(survivals))]

determine_investment_unclamped(cash_inflow, living_expenses, target_investment, investment_cap) ==
    IF investment_cap
    THEN RMin(RSub(cash_inflow, living_expenses), target_investment)
    ELSE RSub(cash_inflow, living_expenses)

\* helpers.determine_investment
determine_investment(cash_inflow, living_expenses, target_investment, investment_cap) ==
    IF investment_cap
    THEN RMax(RMin(RSub(cash_inflow, living_expenses), target_investment), Zero)
    ELSE RMax(RSub(cash_inflow, living_expenses), Zero)

\* simulator.determine_investment
simulator_determine_investment(cash_inflow, living_expenses, target_investment, investment_cap) ==
    IF investment_cap
    THEN RMax(RMin(RSub(cash_inflow, living_expenses), target_investment), Zero)
    ELSE RMax(RSub(cash_inflow, living_expenses), Zero)

\* Paths run through negative, zero and positive values.
PathValues == {-1, 0, 2}
Paths == UNION {[1..n -> PathValues] : n \in 0..MaxPathLen}
ShortPaths == UNION {[1..n -> PathValues] : n \in {0, 1, 2}}
PathLists == UNION {[1..n -> ShortPaths] : n \in 0..MaxPaths}
CashInflows == {-5000, 0, 5000, 10000}
LivingExpenses == {0, 3600}
TargetInvestments == {-1000, 0, 4000}

OutcomeCall(op, argument, raised, value) ==
    [op |-> op, argument |-> argument, raised |-> raised, value |-> value]

\* The functions keep no state, so a behaviour is one call of one of them.

InitHelpers ==
    /\ fifo = <<>>
    /\ running_id = 0
    /\ tax_base = DefaultTaxBase
    /\ last = NoCall
    /\ nops = 0
    /\ portfolios = <<>>
    /\ heap = <<>>
    /\ simulation = NoSimulation

HelpersDetermineSurvival(series) ==
    /\ last = NoCall
    /\ last' = OutcomeCall("helpers.determine_survival", series, "none",
                           determine_survival(series))
    /\ UNCHANGED <<fifo, running_id, tax_base, nops, portfolios, heap, simulation>>

SimulatorDetermineSurvival(series) ==
    /\ last = NoCall
    /\ last' = OutcomeCall("simulator.determine_survival", series, "none",
                           simulator_determine_survival(series))
    /\ UNCHANGED <<fifo, running_id, tax_base, nops, portfolios, heap, simulation>>

HelpersDeterminePortfolioDeath(series) ==
    /\ last = NoCall
    /\ last' = OutcomeCall("helpers.determine_portfolio_death", series, "none",
                           determine_portfolio_death(series))
    /\ UNCHANGED <<fifo, running_id, tax_base, nops, portfolios, heap, simulation>>

SimulatorDeterminePortfolioDeath(series) ==
    /\ last = NoCall
    /\ last' = OutcomeCall("simulator.determine_portfolio_death", series, "none",
                           simulator_determine_portfolio_death(series))
    /\ UNCHANGED <<fifo, running_id, tax_base, nops, portfolios, heap, simulation>>

AnalyzeSurvivalProbability(list_of_pf_valuations) ==
    /\ last = NoCall
    /\ \E r \in {analyze_survival_probability(list_of_pf_valuations)} :
           last' = OutcomeCall("helpers.analyze_survival_probability",
                               list_of_pf_valuations, r.raised, r.value)
    /\ UNCHANGED <<fifo, running_id, tax_base, nops, portfolios, heap, simulation>>

HelpersDetermineInvestment(cash_inflow, living_expenses, target_investment, investment_cap) ==
    /\ last = NoCall
    /\ last' = OutcomeCall("helpers.determine_investment",
                           <<cash_inflow, living_expenses, target_investment,
                             investment_cap>>,
                           "none",
                           determine_investment(cash_inflow, living_expenses,
                                                target_investment, investment_cap))
    /\ UNCHANGED <<fifo, running_id, tax_base, nops, portfolios, heap, simulation>>

SimulatorDetermineInvestment(cash_inflow, living_expenses, target_investment, investment_cap) ==
    /\ last = NoCall
    /\ last' = OutcomeCall("simulator.determine_investment",
                           <<cash_inflow, living_expenses, target_investment,
                             investment_cap>>,
                           "none",
                           simulator_determine_investment(cash_inflow, living_expenses,
                                                          target_investment,
                                                          investment_cap))
    /\ UNCHANGED <<fifo, running_id, tax_base, nops, portfolios, heap, simulation>>

NextHelpers ==
    \/ \E series \in Paths : HelpersDetermineSurvival(series)
    \/ \E series \in Paths : SimulatorDetermineSurvival(series)
    \/ \E series \in Paths : HelpersDeterminePortfolioDeath(series)
    \/ \E series \in Paths : SimulatorDeterminePortfolioDeath(series)
    \/ \E list \in PathLists : AnalyzeSurvivalProbability(list)
    \/ \E c \in CashInflows, l \in LivingExpenses, t \in TargetInvestments,
          cap \in BOOLEAN :
           HelpersDetermineInvestment(R(c), R(l), R(t), cap)
    \/ \E c \in CashInflows, l \in LivingExpenses, t \in TargetInvestments,
          cap \in BOOLEAN :
           SimulatorDetermineInvestment(R(c), R(l), R(t), cap)

SpecHelpers == InitHelpers /\ [][NextHelpers]_vars

(***************************************************************************)
(* simulator.Simulation.create_portfolio_valuations.  The frame df is a    *)
(* sequence of rows.  A log return is a whole multiple k of ln 2 and is    *)
(* written as k, so that math.exp of it is the rational 2^k.               *)
(***************************************************************************)
Row(investments, disinvestments, log_return, pf_beg, pf_end) ==
    [investments |-> investments, disinvestments |-> disinvestments,
     log_return |-> log_return, pf_beg |-> pf_beg, pf_end |-> pf_end]

math_exp(k) == IF k >= 0 THEN R(2 ^ k) ELSE Rat(1, 2 ^ (0 - k))

\* the frame before the loop: the schedule, the drawn returns, and zeros in the
\* columns PF Beg and PF End
frame_before_loop(schedule, log_returns) ==
    [i \in 1..Len(schedule) |->
        Row(schedule[i].investments, schedule[i].disinvestments, log_returns[i],
            Zero, Zero)]

pf_end_always_compounded(pf_beg, log_return, investments, disinvestments) ==
    RSub(RAdd(RMul(math_exp(log_return), pf_beg), investments), disinvestments)

\* the value assigned to row["PF End"]
pf_end_of_period(pf_beg, log_return, investments, disinvestments) ==
    IF RLt(pf_beg, Zero)
    THEN RSub(RAdd(pf_beg, investments), disinvestments)
    ELSE RSub(RAdd(RMul(math_exp(log_return), pf_beg), investments), disinvestments)

\* the loop over df.iterrows(), from the row at position counter + 1 on.  pandas
\* leaves open whether the row it hands out is a view of the frame or a copy
\* (that depends on the dtypes of the columns and on the pandas version); an
\* assignment to a copy does not reach the frame.  rows collects each row as the
\* loop body left it.
RECURSIVE valuation_loop(_, _, _, _, _)
valuation_loop(df, rows, counter, current_portfolio_value, rows_are_views) ==
    IF counter >= Len(df)
    THEN [df |-> df, rows |-> rows]
    ELSE LET index == counter + 1
             previous_index == counter
             pf_beg == IF counter = 0
                       THEN current_portfolio_value
                       ELSE df[previous_index].pf_end
             row == Row(df[index].investments, df[index].disinvestments,
                        df[index].log_return, pf_beg,
                        pf_end_of_period(pf_beg, df[index].log_return,
                                         df[index].investments,
                                         df[index].disinvestments))
         IN  valuation_loop(IF rows_are_views THEN [df EXCEPT ![index] = row] ELSE df,
                            Append(rows, row), counter + 1, current_portfolio_value,
                            rows_are_views)

\* schedule_created is FALSE while create_df_of_investments_and_disinvestments has
\* not run: investments_disinvestments is then the empty frame without columns
create_portfolio_valuations(schedule_created, schedule, log_returns, current_portfolio_value, rows_are_views) ==
    IF ~schedule_created
    THEN [raised |-> "ValueError", df |-> <<>>, rows |-> <<>>]
    ELSE LET r == valuation_loop(frame_before_loop(schedule, log_returns), <<>>, 0,
                                 current_portfolio_value, rows_are_views)
         IN  [raised |-> "none", df |-> r.df, rows |-> r.rows]

ScheduleRows ==
    {[investments |-> R(100), disinvestments |-> Zero],
     [investments |-> Zero, disinvestments |-> Zero],
     [investments |-> Zero, disinvestments |-> R(300)]}
Schedules == UNION {[1..n -> ScheduleRows] : n \in 0..MaxPeriods}
LogReturns == {-1, 0, 1}
CurrentPortfolioValues == {-100, 0, 200}

SimulationCall(op, schedule, log_returns, current_portfolio_value, rows_are_views, raised, df, rows) ==
    [op |-> op, schedule |-> schedule, log_returns |-> log_returns,
     current_portfolio_value |-> current_portfolio_value,
     rows_are_views |-> rows_are_views, raised |-> raised, df |-> df, rows |-> rows]

InitSimulation ==
    /\ fifo = <<>>
    /\ running_id = 0
    /\ tax_base = DefaultTaxBase
    /\ last = NoCall
    /\ nops = 0
    /\ portfolios = <<>>
    /\ heap = <<>>
    /\ simulation = NoSimulation

CreatePortfolioValuations(schedule, log_returns, current_portfolio_value, rows_are_views) ==
    /\ last = NoCall
    /\ \E r \in {create_portfolio_valuations(TRUE, schedule, log_returns,
                                              current_portfolio_value, rows_are_views)} :
           last' = SimulationCall("create_portfolio_valuations", schedule, log_returns,
                                  current_portfolio_value, rows_are_views, r.raised,
                                  r.df, r.rows)
    /\ UNCHANGED <<fifo, running_id, tax_base, nops, portfolios, heap, simulation>>

CreatePortfolioValuationsWithoutSchedule(current_portfolio_value) ==
    /\ last = NoCall
    /\ \E r \in {create_portfolio_valuations(FALSE, <<>>, <<>>, current_portfolio_value,
                                              FALSE)} :
           last' = SimulationCall("create_portfolio_valuations", <<>>, <<>>,
                                  current_portfolio_value, FALSE, r.raised, r.df, r.rows)
    /\ UNCHANGED <<fifo, running_id, tax_base, nops, portfolios, heap, simulation>>

NextSimulation ==
    \/ \E schedule \in Schedules, v \in CurrentPortfolioValues, views \in BOOLEAN :
           \E log_returns \in [1..Len(schedule) -> LogReturns] :
               CreatePortfolioValuations(schedule, log_returns, R(v), views)
    \/ \E v \in CurrentPortfolioValues : CreatePortfolioValuationsWithoutSchedule(R(v))

SpecSimulation == InitSimulation /\ [][NextSimulation]_vars

(***************************************************************************)
(* simulator.Simulation.run_simulation.  The inflation is 0, so the living *)
(* expenses and the target investment are the same in every month.         *)
(***************************************************************************)
\* simulator.determine_disinvestment
determine_disinvestment(cash_inflow, living_expenses, tax_rate) ==
    IF RLe(R(1), tax_rate)
    THEN [raised |-> "ValueError", value |-> Zero]
    ELSE IF RLt(tax_rate, Zero)
    THEN [raised |-> "ValueError", value |-> Zero]
    ELSE [raised |-> "none",
          value |-> RMax(RDiv(RSub(living_expenses, cash_inflow), RSub(R(1), tax_rate)),
                         Zero)]

\* a row of investments_disinvestments
ScheduleRow(cashflow, living_expenses, investments, disinvestments) ==
    [cashflow |-> cashflow, living_expenses |-> living_expenses,
     investments |-> investments, disinvestments |-> disinvestments]

\* create_df_of_investments_and_disinvestments: one row per month; the two frames
\* it joins are built from the same net cash flows and living expenses, so its two
\* checks that they agree never raise
create_df_of_investments_and_disinvestments(sim) ==
    LET investor == sim.investor
        disinvestments ==
            [i \in 1..Len(sim.net_cashflows) |->
                determine_disinvestment(sim.net_cashflows[i], investor.living_expenses,
                                        investor.tax_rate)]
    IN  IF \E i \in 1..Len(disinvestments) : disinvestments[i].raised # "none"
        THEN [raised |-> "ValueError", simulation |-> sim]
        ELSE [raised |-> "none",
              simulation |->
                  [sim EXCEPT
                      !.schedule_created = TRUE,
                      !.investments_disinvestments =
                          [i \in 1..Len(sim.net_cashflows) |->
                              ScheduleRow(sim.net_cashflows[i], investor.living_expenses,
                                          simulator_determine_investment(
                                              sim.net_cashflows[i],
                                              investor.living_expenses,
                                              investor.target_investment_amount,
                                              investor.investment_cap),
                                          disinvestments[i].value)]]]

\* the frame create_portfolio_valuations returns: df started as a copy of
\* investments_disinvestments, so it carries the columns Cashflow and Living
\* expenses along, and the loop assigns to neither
returned_frame(schedule, df) ==
    [i \in 1..Len(df) |->
        [cashflow |-> schedule[i].cashflow,
         living_expenses |-> schedule[i].living_expenses,
         investments |-> df[i].investments, disinvestments |-> df[i].disinvestments,
         log_return |-> df[i].log_return, pf_beg |-> df[i].pf_beg,
         pf_end |-> df[i].pf_end]]

\* results[key] = value on a dict: the other keys keep their values
dict_setitem(results, key, value) ==
    [k \in (DOMAIN results) \cup {key} |-> IF k = key THEN value ELSE results[k]]

\* for i in range(n): self.results[i] = self.create_portfolio_valuations(); draws[i + 1]
\* are the returns that the return generator hands to run i
RECURSIVE run_simulation_loop(_, _, _, _)
run_simulation_loop(sim, i, n, draws) ==
    IF i >= n
    THEN sim
    ELSE LET r == create_portfolio_valuations(sim.schedule_created,
                                              sim.investments_disinvestments,
                                              draws[i + 1],
                                              sim.investor.current_portfolio_value,
                                              sim.rows_are_views)
         IN  run_simulation_loop(
                 [sim EXCEPT !.results =
                     dict_setitem(@, i, returned_frame(sim.investments_disinvestments,
                                                       r.df))],
                 i + 1, n, draws)

run_simulation(sim, n, draws) ==
    LET created == create_df_of_investments_and_disinvestments(sim)
    IN  IF created.raised # "none"
        THEN created
        ELSE [raised |-> "none",
              simulation |-> run_simulation_loop(created.simulation, 0, n, draws)]

\* Months with a surplus above the target investment, with a surplus below it, and
\* with a shortfall.
NetCashflows == {0, 5000, 10000}
RunLogReturns == {0, 1}
\* the returns drawn for one run of len months: the same return in every month (how
\* the returns of the months of a path combine is covered by SpecSimulation)
Draws(len) == {[i \in 1..len |-> k] : k \in RunLogReturns}

RunCall(op, n, raised) ==
    [op |-> op, n |-> n, raised |-> raised, simulation_before |-> simulation]

InitRuns ==
    /\ fifo = <<>>
    /\ running_id = 0
    /\ tax_base = DefaultTaxBase
    /\ last = NoCall
    /\ nops = 0
    /\ portfolios = <<>>
    /\ heap = <<>>
    /\ simulation \in {Simulation(net_cashflows, views) :
                          net_cashflows \in UNION {[1..len -> {R(c) : c \in NetCashflows}] :
                                                      len \in 0..MaxPeriods},
                          views \in BOOLEAN}

RunSimulation(n, draws) ==
    /\ nops < MaxRunCalls
    /\ \E r \in {run_simulation(simulation, n, draws)} :
           /\ simulation' = r.simulation
           /\ last' = RunCall("run_simulation", n, r.raised)
    /\ nops' = nops + 1
    /\ UNCHANGED <<fifo, running_id, tax_base, portfolios, heap>>

NextRuns ==
    \/ \E n \in 0..MaxRuns :
           \E draws \in [1..n -> Draws(Len(simulation.net_cashflows))] :
               RunSimulation(n, draws)

SpecRuns == InitRuns /\ [][NextRuns]_vars

(***************************************************************************)
(* sell_net_volume step by step: a call is begun, then every step tests    *)
(* the condition of the while loop and either returns or runs the body of  *)
(* the loop once.  While a call runs, last is the frame of the call: its   *)
(* arguments and its local variables.  Lots of zero shares are among the   *)
(* lots bought: buy_shares takes any number.                               *)
(***************************************************************************)
\* one run of the body of the while loop of sell_net_volume; outcome "continue"
\* leads back to the test of the loop condition
sell_net_volume_body(f, tb, net_proceeds, sale_transactions, target_net_proceeds, sale_price, partial_sale, fifo_copy) ==
    LET stopped(f_now, tb_now, proceeds_now) ==
            [net_proceeds |-> proceeds_now] @@
                on_stop_iteration(f_now, tb_now, sale_transactions, partial_sale, fifo_copy)
    IN  IF RLt(sale_price, Zero)
        THEN [fifo |-> f, tax_base |-> tb, transactions |-> <<>>,
              net_proceeds |-> net_proceeds, raised |-> "ValueError", outcome |-> "raised"]
        ELSE IF f = <<>>
        THEN stopped(f, tb, net_proceeds)
        ELSE LET available_net_proceeds ==
                     determine_next_available_net_proceeds(f, tb, sale_price)
                 next_available_nr_shares == Head(f).shares
                 historical_price == Head(f).price
                 n == IF RLe(target_net_proceeds, RAdd(net_proceeds, available_net_proceeds))
                      THEN nr_shares_for_net_proceeds(tb, target_net_proceeds, sale_price,
                                                      historical_price)
                      ELSE [raised |-> "none", value |-> next_available_nr_shares]
                 shares_to_sell == n.value
                 proceeds == RAdd(net_proceeds,
                                  determine_net_proceeds(tb, shares_to_sell, sale_price,
                                                         historical_price))
                 sold == sell_shares(f, tb, shares_to_sell, sale_price)
             IN  IF n.raised # "none"
                 THEN [fifo |-> f, tax_base |-> tb, transactions |-> <<>>,
                       net_proceeds |-> net_proceeds, raised |-> n.raised,
                       outcome |-> "raised"]
                 ELSE IF sold.raised # "none"
                 THEN stopped(sold.fifo, sold.tax_base, proceeds)
                 ELSE [fifo |-> sold.fifo, tax_base |-> sold.tax_base,
                       transactions |-> dict_set(sale_transactions, shares_to_sell,
                                                 historical_price, sale_price),
                       net_proceeds |-> proceeds, raised |-> "none",
                       outcome |-> "continue"]

LoopBuyAmounts == {0, 1, 2}
LoopSalePrices == {0, 1, 3}
LoopSellAmounts == {1, 2}
LoopTargetNets == {0, 1, 3, 5}

\* the frame of a call of sell_net_volume: pc is "loop" while the call runs and
\* "returned" once it has returned or raised; fifo_at_body is the ledger as the
\* most recent run of the loop body found it
Frame(pc, target_net_proceeds, sale_price, partial_sale, fifo_copy, net_proceeds, sale_transactions, body_ran, fifo_at_body, raised, outcome) ==
    [op |-> "sell_net_volume, step by step", pc |-> pc,
     target_net_proceeds |-> target_net_proceeds, sale_price |-> sale_price,
     partial_sale |-> partial_sale, fifo_copy |-> fifo_copy,
     net_proceeds |-> net_proceeds, sale_transactions |-> sale_transactions,
     body_ran |-> body_ran, fifo_at_body |-> fifo_at_body,
     raised |-> raised, outcome |-> outcome]

InFrame == last.op = "sell_net_volume, step by step"
Running == InFrame /\ last.pc = "loop"
Returned == InFrame /\ last.pc = "returned"

InitLoop ==
    /\ fifo = <<>>
    /\ running_id = 0
    /\ tax_base \in {TaxBase(R(e), R(l), Zero, r) :
                        e \in InitialExemptions, l \in InitialLossPots, r \in TaxRates}
    /\ last = NoCall
    /\ nops = 0
    /\ portfolios = <<>>
    /\ heap = <<>>
    /\ simulation = NoSimulation

\* lines 88-91: the call is entered and its local variables are set up
BeginSellNetVolume(target_net_proceeds, sale_price, partial_sale) ==
    /\ nops < MaxOps
    /\ ~Running
    /\ last' = Frame("loop", target_net_proceeds, sale_price, partial_sale, fifo, Zero,
                     <<>>, FALSE, fifo, "none", "none")
    /\ nops' = nops + 1
    /\ UNCHANGED <<fifo, running_id, tax_base, portfolios, heap, simulation>>

\* the test of the loop condition found the target reached: return sale_transactions
ReturnSellNetVolume ==
    /\ Running
    /\ ~RLt(round2(last.net_proceeds), round2(last.target_net_proceeds))
    /\ last' = [last EXCEPT !.pc = "returned", !.outcome = "reached"]
    /\ UNCHANGED <<fifo, running_id, tax_base, nops, portfolios, heap, simulation>>

\* the test of the loop condition found the target not reached: the body runs once
IterateSellNetVolume ==
    /\ Running
    /\ RLt(round2(last.net_proceeds), round2(last.target_net_proceeds))
    /\ \E r \in {sell_net_volume_body(fifo, tax_base, last.net_proceeds,
                                      last.sale_transactions, last.target_net_proceeds,
                                      last.sale_price, last.partial_sale,
                                      last.fifo_copy)} :
           /\ fifo' = r.fifo
           /\ tax_base' = r.tax_base
           /\ last' = [last EXCEPT
                          !.pc = IF r.outcome = "continue" THEN "loop" ELSE "returned",
                          !.net_proceeds = r.net_proceeds,
                          !.sale_transactions = r.transactions,
                          !.body_ran = TRUE,
                          !.fifo_at_body = fifo,
                          !.raised = r.raised,
                          !.outcome = r.outcome]
    /\ UNCHANGED <<running_id, nops, portfolios, heap, simulation>>

\* buy_shares and sell_shares are called while no call of sell_net_volume runs
BuySharesBetweenCalls(nr_shares, historical_price) ==
    /\ ~Running
    /\ BuyShares(nr_shares, historical_price)

SellSharesBetweenCalls(nr_shares, sale_price) ==
    /\ ~Running
    /\ SellShares(nr_shares, sale_price)

NextLoop ==
    \/ \E n \in LoopBuyAmounts, p \in Prices : BuySharesBetweenCalls(R(n), R(p))
    \/ \E k \in LoopSellAmounts, sp \in LoopSalePrices : SellSharesBetweenCalls(R(k), R(sp))
    \/ \E t \in LoopTargetNets, sp \in LoopSalePrices, partial \in BOOLEAN :
           BeginSellNetVolume(R(t), R(sp), partial)
    \/ ReturnSellNetVolume
    \/ IterateSellNetVolume

SpecLoop == InitLoop /\ [][NextLoop]_vars

\* a call that is running keeps running: the interpreter goes on to the next test
\* of the loop condition
SpecLoopFair ==
    SpecLoop /\ WF_vars(ReturnSellNetVolume) /\ WF_vars(IterateSellNetVolume)

(***************************************************************************)
(* The query methods of TaxBase and Portfolio as calls: what a call leaves *)
(* of the object's fields, what it raises and what it returns.  None of    *)
(* the methods assigns to a field of self.                                 *)
(***************************************************************************)
\* determine_tax_exemption_and_loss_pot with its three results written to the
\* fields of self, as adjust_taxbase_via_sale does
determine_tax_exemption_and_loss_pot_assigning(tb, sale_price, historical_price, nr_shares) ==
    LET adjusted == adjust_taxbase_via_sale(tb, sale_price, historical_price, nr_shares)
    IN  [tax_base |-> adjusted.tax_base, raised |-> "none",
         value |-> <<adjusted.tax_base.tax_exemption, adjusted.tax_base.loss_pot,
                     adjusted.tax_base.withheld_taxes>>]

\* TaxBase.determine_tax_exemption_and_loss_pot: the balances a sale would leave,
\* worked out in local variables
determine_tax_exemption_and_loss_pot(tb, sale_price, historical_price, nr_shares) ==
    LET taxable == determine_taxable(tb, sale_price, historical_price, nr_shares)
        taxes == calculate_taxes(tb, taxable, sale_price, nr_shares)
        withheld_taxes == RAdd(tb.withheld_taxes, taxes.abs)
        gain_loss == RMul(nr_shares, RSub(sale_price, historical_price))
        residual_gain_loss == RMax(Zero, RSub(gain_loss, tb.loss_pot))
        loss_pot == RMax(Zero, RSub(tb.loss_pot, gain_loss))
        tax_exemption == RMax(Zero, RSub(tb.tax_exemption, residual_gain_loss))
    IN  [tax_base |-> tb, raised |-> "none",
         value |-> <<tax_exemption, loss_pot, withheld_taxes>>]

\* a call of TaxBase.determine_taxable
call_determine_taxable(tb, sale_price, historical_price, nr_shares) ==
    [tax_base |-> tb, raised |-> "none",
     value |-> determine_taxable(tb, sale_price, historical_price, nr_shares)]

\* a call of TaxBase.calculate_taxes; the ZeroDivisionError of a sale of volume 0
\* is caught inside
call_calculate_taxes(tb, taxable, sale_price, nr_shares) ==
    [tax_base |-> tb, raised |-> "none",
     value |-> calculate_taxes(tb, taxable, sale_price, nr_shares)]

\* a call of TaxBase.determine_net_proceeds
call_determine_net_proceeds(tb, nr_shares, sale_price, historical_price) ==
    [tax_base |-> tb, raised |-> "none",
     value |-> determine_net_proceeds(tb, nr_shares, sale_price, historical_price)]

\* a call of TaxBase.nr_shares_for_net_proceeds
call_nr_shares_for_net_proceeds(tb, target_net_proceeds, sale_price, historical_price) ==
    LET r == nr_shares_for_net_proceeds(tb, target_net_proceeds, sale_price,
                                        historical_price)
    IN  [tax_base |-> tb, raised |-> r.raised, value |-> r.value]

\* a call of Portfolio.determine_available_shares
call_determine_available_shares(f, tb) ==
    [fifo |-> f, tax_base |-> tb, raised |-> "none",
     value |-> determine_available_shares(f)]

\* Portfolio.determine_portfolio_value
determine_portfolio_value(f, tb, share_price) ==
    IF RLt(share_price, Zero)
    THEN [fifo |-> f, tax_base |-> tb, raised |-> "ValueError", value |-> Zero]
    ELSE [fifo |-> f, tax_base |-> tb, raised |-> "none",
          value |-> RMul(determine_available_shares(f), share_price)]

\* a call of Portfolio.determine_next_available_net_proceeds: next(iter(self.fifo))
\* raises StopIteration on a ledger without lots
call_determine_next_available_net_proceeds(f, tb, sale_price) ==
    IF RLt(sale_price, Zero)
    THEN [fifo |-> f, tax_base |-> tb, raised |-> "ValueError", value |-> Zero]
    ELSE IF f = <<>>
    THEN [fifo |-> f, tax_base |-> tb, raised |-> "StopIteration", value |-> Zero]
    ELSE [fifo |-> f, tax_base |-> tb, raised |-> "none",
          value |-> determine_next_available_net_proceeds(f, tb, sale_price)]

\* Queries about a sale at a gain (2 shares bought at 1, sold at 3) and one at a
\* loss; lots bought at 1 and at 4 and sold at 3, so that one sale can take a lot
\* at a loss and a lot at a gain.
QuerySales == {<<3, 1, 2>>, <<1, 2, 2>>}
QueryTargets == {0, 3}
QueryPrices == {-1, 3}
QueryBuyPrices == {1, 4}
QuerySellAmounts == {1, 3}
QueryExemptions == {0, 2}
QueryLossPots == {0, 1}

InitQueries ==
    /\ fifo = <<>>
    /\ running_id = 0
    /\ tax_base \in {TaxBase(R(e), R(l), Zero, r) :
                        e \in QueryExemptions, l \in QueryLossPots, r \in TaxRates}
    /\ last = NoCall
    /\ nops = 0
    /\ portfolios = <<>>
    /\ heap = <<>>
    /\ simulation = NoSimulation

QueryDetermineTaxable(sale_price, historical_price, nr_shares) ==
    /\ nops < MaxOps
    /\ \E r \in {call_determine_taxable(tax_base, sale_price, historical_price,
                                        nr_shares)} :
           /\ tax_base' = r.tax_base
           /\ last' = Call("determine_taxable", nr_shares, sale_price, historical_price,
                           FALSE, <<>>, r.raised, "query", r.value)
    /\ nops' = nops + 1
    /\ UNCHANGED <<fifo, running_id, portfolios, heap, simulation>>

QueryCalculateTaxes(taxable, sale_price, nr_shares) ==
    /\ nops < MaxOps
    /\ \E r \in {call_calculate_taxes(tax_base, taxable, sale_price, nr_shares)} :
           /\ tax_base' = r.tax_base
           /\ last' = Call("calculate_taxes", nr_shares, sale_price, taxable,
                           FALSE, <<>>, r.raised, "query", r.value)
    /\ nops' = nops + 1
    /\ UNCHANGED <<fifo, running_id, portfolios, heap, simulation>>

QueryDetermineNetProceeds(nr_shares, sale_price, historical_price) ==
    /\ nops < MaxOps
    /\ \E r \in {call_determine_net_proceeds(tax_base, nr_shares, sale_price,
                                             historical_price)} :
           /\ tax_base' = r.tax_base
           /\ last' = Call("determine_net_proceeds", nr_shares, sale_price,
                           historical_price, FALSE, <<>>, r.raised, "query", r.value)
    /\ nops' = nops + 1
    /\ UNCHANGED <<fifo, running_id, portfolios, heap, simulation>>

QueryDetermineTaxExemptionAndLossPot(sale_price, historical_price, nr_shares) ==
    /\ nops < MaxOps
    /\ \E r \in {determine_tax_exemption_and_loss_pot(tax_base, sale_price,
                                                      historical_price, nr_shares)} :
           /\ tax_base' = r.tax_base
           /\ last' = Call("determine_tax_exemption_and_loss_pot", nr_shares, sale_price,
                           historical_price, FALSE, <<>>, r.raised, "query", r.value)
    /\ nops' = nops + 1
    /\ UNCHANGED <<fifo, running_id, portfolios, heap, simulation>>

QueryNrSharesForNetProceeds(target_net_proceeds, sale_price, historical_price) ==
    /\ nops < MaxOps
    /\ \E r \in {call_nr_shares_for_net_proceeds(tax_base, target_net_proceeds,
                                                 sale_price, historical_price)} :
           /\ tax_base' = r.tax_base
           /\ last' = Call("nr_shares_for_net_proceeds", target_net_proceeds, sale_price,
                           historical_price, FALSE, <<>>, r.raised, "query", r.value)
    /\ nops' = nops + 1
    /\ UNCHANGED <<fifo, running_id, portfolios, heap, simulation>>

QueryDetermineAvailableShares ==
    /\ nops < MaxOps
    /\ \E r \in {call_determine_available_shares(fifo, tax_base)} :
           /\ fifo' = r.fifo
           /\ tax_base' = r.tax_base
           /\ last' = Call("determine_available_shares", Zero, Zero, Zero, FALSE, <<>>,
                           r.raised, "query", r.value)
    /\ nops' = nops + 1
    /\ UNCHANGED <<running_id, portfolios, heap, simulation>>

QueryDeterminePortfolioValue(share_price) ==
    /\ nops < MaxOps
    /\ \E r \in {determine_portfolio_value(fifo, tax_base, share_price)} :
           /\ fifo' = r.fifo
           /\ tax_base' = r.tax_base
           /\ last' = Call("determine_portfolio_value", Zero, share_price, Zero, FALSE,
                           <<>>, r.raised, "query", r.value)
    /\ nops' = nops + 1
    /\ UNCHANGED <<running_id, portfolios, heap, simulation>>

QueryDetermineNextAvailableNetProceeds(sale_price) ==
    /\ nops < MaxOps
    /\ \E r \in {call_determine_next_available_net_proceeds(fifo, tax_base,
                                                            sale_price)} :
           /\ fifo' = r.fifo
           /\ tax_base' = r.tax_base
           /\ last' = Call("determine_next_available_net_proceeds", Zero, sale_price,
                           Zero, FALSE, <<>>, r.raised, "query", r.value)
    /\ nops' = nops + 1
    /\ UNCHANGED <<running_id, portfolios, heap, simulation>>

NextQueries ==
    \/ \E p \in QueryBuyPrices : BuyShares(R(2), R(p))
    \/ \E k \in QuerySellAmounts : SellShares(R(k), R(3))
    \/ \E s \in QuerySales : QueryDetermineTaxable(R(s[1]), R(s[2]), R(s[3]))
    \/ \E t \in QueryTargets, s \in QuerySales : QueryCalculateTaxes(R(t), R(s[1]), R(s[3]))
    \/ \E s \in QuerySales : QueryDetermineNetProceeds(R(s[3]), R(s[1]), R(s[2]))
    \/ \E s \in QuerySales :
           QueryDetermineTaxExemptionAndLossPot(R(s[1]), R(s[2]), R(s[3]))
    \/ \E t \in QueryTargets, s \in QuerySales :
           QueryNrSharesForNetProceeds(R(t), R(s[1]), R(s[2]))
    \/ QueryDetermineAvailableShares
    \/ \E p \in QueryPrices : QueryDeterminePortfolioValue(R(p))
    \/ \E p \in QueryPrices : QueryDetermineNextAvailableNetProceeds(R(p))

SpecQueries == InitQueries /\ [][NextQueries]_vars

(***************************************************************************)
(* helpers.determine_taxes and helpers.determine_taxes_for_transactions:   *)
(* the taxes of a sale worked out again from the transactions it returned. *)
(***************************************************************************)
determine_taxes(sale_price, historical_price, number_of_shares, tax_rate, tax_exemption, loss_pot) ==
    IF RLt(tax_exemption, Zero) \/ RLt(loss_pot, Zero)
    THEN [raised |-> "ValueError", abs |-> Zero, rel |-> Zero]
    ELSE LET gain == RMul(RSub(sale_price, historical_price), number_of_shares)
             taxes_abs == RMul(RSub(RSub(gain, tax_exemption), loss_pot), tax_rate)
             volume == RMul(sale_price, number_of_shares)
         IN  IF RLt(gain, Zero) \/ RLe(gain, RAdd(tax_exemption, loss_pot))
             THEN [raised |-> "none", abs |-> Zero, rel |-> Zero]
             ELSE IF volume = Zero
             THEN [raised |-> "ZeroDivisionError", abs |-> Zero, rel |-> Zero]
             ELSE [raised |-> "none", abs |-> taxes_abs, rel |-> RDiv(taxes_abs, volume)]

\* the for loop of determine_taxes_for_transactions from transaction i on; an
\* exception of determine_taxes ends the call
RECURSIVE determine_taxes_for_transactions_loop(_, _, _, _, _, _, _)
determine_taxes_for_transactions_loop(transactions, i, share_price, tax_rate, tax_exemption, transaction_volume, taxes_abs) ==
    IF i > Len(transactions)
    THEN [raised |-> "none", abs |-> taxes_abs,
          rel |-> IF transaction_volume = Zero
                  THEN Zero ELSE RDiv(taxes_abs, transaction_volume)]
    ELSE LET key == transactions[i].shares
             historical_price == transactions[i].historical_price
             taxes == determine_taxes(share_price, historical_price, key, tax_rate,
                                      tax_exemption, Zero)
             gain_loss == RMul(key, RSub(share_price, historical_price))
         IN  IF taxes.raised # "none"
             THEN [raised |-> taxes.raised, abs |-> Zero, rel |-> Zero]
             ELSE determine_taxes_for_transactions_loop(transactions, i + 1,
                      share_price, tax_rate,
                      RMax(Zero, RSub(tax_exemption, RMax(Zero, gain_loss))),
                      RAdd(transaction_volume, RMul(key, share_price)),
                      RAdd(taxes_abs, taxes.abs))

determine_taxes_for_transactions(transactions, share_price, tax_rate, tax_exemption) ==
    determine_taxes_for_transactions_loop(transactions, 1, share_price, tax_rate,
                                          tax_exemption, Zero, Zero)

(***************************************************************************)
(* Vocabulary of the properties.                                           *)
(***************************************************************************)
SoldShares == last.op = "sell_shares" /\ last.raised = "none"

\* shares of the lot with this id that are still in the ledger f
RemainingOf(f, id) ==
    IF \E i \in 1..Len(f) : f[i].id = id
    THEN (CHOOSE l \in {f[i] : i \in 1..Len(f)} : l.id = id).shares
    ELSE Zero

\* what a sale took from the i-th lot of the ledger it started from
TakenFrom(i) ==
    RSub(last.fifo_before[i].shares, RemainingOf(fifo, last.fifo_before[i].id))

RECURSIVE EntriesFrom(_)
EntriesFrom(i) ==
    IF i > Len(last.fifo_before)
    THEN <<>>
    ELSE IF RLt(Zero, TakenFrom(i))
    THEN <<Transaction(TakenFrom(i), last.fifo_before[i].price, last.sale_price)>>
             \o EntriesFrom(i + 1)
    ELSE EntriesFrom(i + 1)

RECURSIVE SumOfTransactions(_)
SumOfTransactions(transactions) ==
    IF transactions = <<>>
    THEN Zero
    ELSE RAdd(Head(transactions).shares, SumOfTransactions(Tail(transactions)))

RECURSIVE GrossOfTransactions(_)
GrossOfTransactions(transactions) ==
    IF transactions = <<>>
    THEN Zero
    ELSE RAdd(RMul(Head(transactions).shares, Head(transactions).sale_price),
              GrossOfTransactions(Tail(transactions)))

\* net proceeds of selling every lot of f in FIFO order, starting from TaxBase tb
RECURSIVE NetOfAllLots(_, _, _)
NetOfAllLots(f, tb, sale_price) ==
    IF f = <<>>
    THEN Zero
    ELSE RAdd(determine_net_proceeds(tb, Head(f).shares, sale_price, Head(f).price),
              NetOfAllLots(Tail(f),
                           adjust_taxbase_via_sale(tb, sale_price, Head(f).price,
                                                   Head(f).shares).tax_base,
                           sale_price))

NetVolumeCall == last.op = "sell_net_volume" /\ RLt(Zero, last.amount)

\* the ledger the call started from can deliver the target (2-decimal comparison,
\* as in the loop condition of sell_net_volume)
Deliverable ==
    ~RLt(round2(NetOfAllLots(last.fifo_before, last.tax_base_before, last.sale_price)),
         round2(last.amount))

(***************************************************************************)
(* C1: a successful sell_shares(k, price) takes shares only from the       *)
(* oldest lots: the lots it removes form a prefix of the ledger, at most   *)
(* the lot right after that prefix is shrunk and keeps id and cost basis,  *)
(* every later lot is unchanged in place, and the shares taken sum to k.   *)
(***************************************************************************)
C1_SellSharesIsFifo ==
    SoldShares =>
        \E j \in 0..Len(last.fifo_before) :
            /\ Len(fifo) = Len(last.fifo_before) - j
            /\ \A i \in 2..Len(fifo) : fifo[i] = last.fifo_before[j + i]
            /\ Len(fifo) > 0 =>
                 /\ fifo[1].id = last.fifo_before[j + 1].id
                 /\ fifo[1].price = last.fifo_before[j + 1].price
                 /\ RLt(Zero, fifo[1].shares)
                 /\ RLe(fifo[1].shares, last.fifo_before[j + 1].shares)
            /\ last.amount =
                 RAdd(sum_shares(SubSeq(last.fifo_before, 1, j)),
                      IF Len(fifo) > 0
                      THEN RSub(last.fifo_before[j + 1].shares, fifo[1].shares)
                      ELSE Zero)

\* a sale that removed the head lot whole and shrank the lot after it
C1_Witness ==
    /\ SoldShares
    /\ Len(last.fifo_before) = 2
    /\ Len(fifo) = 1
    /\ fifo[1].id = last.fifo_before[2].id
    /\ RLt(fifo[1].shares, last.fifo_before[2].shares)

(***************************************************************************)
(* C2: a successful sell_shares(k, price) returns, in FIFO order, one      *)
(* entry (shares sold, cost basis, sale price) for each lot it took shares *)
(* from, and the share counts of the returned entries sum to k.            *)
(***************************************************************************)
C2_OneEntryPerLot ==
    SoldShares =>
        /\ last.transactions = EntriesFrom(1)
        /\ SumOfTransactions(last.transactions) = last.amount

(***************************************************************************)
(* C3: sell_net_volume(target, price) with target > 0 on a ledger that can *)
(* deliver the target reaches it: it raises nothing and the net proceeds   *)
(* of the returned transactions (their gross volume minus the tax the call *)
(* withheld) equal the target, also when more than one lot is needed.      *)
(***************************************************************************)
C3_NetVolumeDeliversTarget ==
    (NetVolumeCall /\ Deliverable) =>
        /\ last.raised = "none"
        /\ last.outcome = "reached"
        /\ round2(RSub(GrossOfTransactions(last.transactions),
                       RSub(tax_base.withheld_taxes,
                            last.tax_base_before.withheld_taxes)))
             = round2(last.amount)

(***************************************************************************)
(* C4: sell_net_volume(target, price, partial_sale=False) that cannot      *)
(* reach the target with all lots returns no transactions and leaves the   *)
(* lot sequence as it was before the call.                                 *)
(***************************************************************************)
C4_RollbackRestoresLots ==
    (NetVolumeCall /\ ~last.partial_sale /\ ~Deliverable) =>
        /\ last.outcome = "rolled_back"
        /\ last.transactions = <<>>
        /\ fifo = last.fifo_before

\* a rolled-back call on a ledger of two lots, both of which it had sold
C4_Witness ==
    /\ NetVolumeCall /\ ~last.partial_sale /\ ~Deliverable
    /\ last.outcome = "rolled_back"
    /\ Len(last.fifo_before) = 2
    /\ fifo = last.fifo_before

(***************************************************************************)
(* C5: when sell_net_volume(target, price, partial_sale=False) cannot      *)
(* reach the target and rolls back, tax_exemption, loss_pot and            *)
(* withheld_taxes are what they were before the call.                      *)
(***************************************************************************)
C5_RollbackRestoresTaxBase ==
    (NetVolumeCall /\ ~last.partial_sale /\ ~Deliverable) =>
        tax_base = last.tax_base_before

(***************************************************************************)
(* C6: sell_shares(k, price) with k above the available shares fails and   *)
(* applies nothing: lots, lot-id counter and TaxBase are unchanged.        *)
(***************************************************************************)
C6_OversellAppliesNothing ==
    (/\ last.op = "sell_shares"
     /\ RLt(determine_available_shares(last.fifo_before), last.amount)) =>
        /\ last.raised # "none"
        /\ fifo = last.fifo_before
        /\ running_id = last.running_id_before
        /\ tax_base = last.tax_base_before

(***************************************************************************)
(* C7: sell_net_volume(target, price, partial_sale=True) that cannot reach *)
(* the target raises nothing, empties the ledger and returns one           *)
(* transaction per lot that was in the ledger, in FIFO order, each with    *)
(* that lot's full share count and cost basis.                             *)
(***************************************************************************)
C7_PartialSaleReturnsEveryLot ==
    (NetVolumeCall /\ last.partial_sale /\ ~Deliverable) =>
        /\ last.raised = "none"
        /\ fifo = <<>>
        /\ last.transactions =
             [i \in 1..Len(last.fifo_before) |->
                Transaction(last.fifo_before[i].shares, last.fifo_before[i].price,
                            last.sale_price)]

(***************************************************************************)
(* C8: for tax_exemption >= 0, loss_pot >= 0, 0 <= tax_rate < 1 and        *)
(* target_net > 0, sale_price >= cost basis > 0, nr_shares_for_net_proceeds*)
(* raises nothing and returns s >= 0 with s * sale_price minus the tax on  *)
(* selling s shares within 1e-4 (relative) of target_net.                  *)
(***************************************************************************)
C8_SharesForNetProceedsRoundTrip ==
    (/\ last.op = "nr_shares_for_net_proceeds"
     /\ RLt(Zero, last.amount)
     /\ RLt(Zero, last.historical_price)
     /\ RLe(last.historical_price, last.sale_price)) =>
        /\ last.raised = "none"
        /\ RLe(Zero, last.value)
        /\ isclose(RSub(RMul(last.value, last.sale_price),
                        RMul(tax_base.tax_rate,
                             determine_taxable(tax_base, last.sale_price,
                                               last.historical_price, last.value))),
                   last.amount)

\* a request whose gain exceeds loss pot plus exemption, so that tax is due and
\* more than target / sale_price shares are needed
C8_Witness ==
    /\ last.op = "nr_shares_for_net_proceeds"
    /\ last.raised = "none"
    /\ RLt(last.historical_price, last.sale_price)
    /\ RLt(Zero, tax_base.loss_pot)
    /\ RLt(Zero, tax_base.tax_rate)
    /\ RLt(last.amount, RMul(last.value, last.sale_price))

(***************************************************************************)
(* C9: for tax_exemption >= 0, loss_pot >= 0 and shares >= 0,              *)
(* determine_taxable returns a value >= 0, and exactly 0 whenever          *)
(* sale_price <= cost basis.                                               *)
(***************************************************************************)
C9_TaxableNonNegative ==
    last.op = "determine_taxable" =>
        /\ RLe(Zero, last.value)
        /\ RLe(last.sale_price, last.historical_price) => last.value = Zero

\* a sale at a loss of a positive number of shares, and nothing taxable
C9_Witness ==
    /\ last.op = "determine_taxable"
    /\ RLt(last.sale_price, last.historical_price)
    /\ RLt(Zero, last.amount)
    /\ RLt(Zero, tax_base.tax_exemption)
    /\ last.value = Zero

(***************************************************************************)
(* C10: adjust_taxbase_via_sale takes gain = shares * (sale_price - cost   *)
(* basis) and residual = max(0, gain - loss_pot) from the state before the *)
(* call and sets withheld_taxes += tax_rate * max(0, residual -            *)
(* tax_exemption), loss_pot = max(0, loss_pot - gain), tax_exemption =     *)
(* max(0, tax_exemption - residual), all from the values before the call;  *)
(* tax_rate is unchanged.                                                  *)
(***************************************************************************)
C10_AdjustFromPreCallValues ==
    last.op = "adjust_taxbase_via_sale" =>
        LET before == last.tax_base_before
            gain == RMul(last.amount, RSub(last.sale_price, last.historical_price))
            residual == RMax(Zero, RSub(gain, before.loss_pot))
        IN  /\ tax_base.withheld_taxes =
                 RAdd(before.withheld_taxes,
                      RMul(before.tax_rate,
                           RMax(Zero, RSub(residual, before.tax_exemption))))
            /\ tax_base.loss_pot = RMax(Zero, RSub(before.loss_pot, gain))
            /\ tax_base.tax_exemption = RMax(Zero, RSub(before.tax_exemption, residual))
            /\ tax_base.tax_rate = before.tax_rate

\* a gain that uses up the loss pot, then the exemption, and is taxed beyond that
C10_Witness ==
    /\ last.op = "adjust_taxbase_via_sale"
    /\ RLt(Zero, last.tax_base_before.loss_pot)
    /\ RLt(Zero, last.tax_base_before.tax_exemption)
    /\ tax_base.loss_pot = Zero
    /\ tax_base.tax_exemption = Zero
    /\ RLt(last.tax_base_before.withheld_taxes, tax_base.withheld_taxes)

(***************************************************************************)
(* C11: after a successful sell_shares(k, price) the TaxBase is the one    *)
(* obtained from the TaxBase before the call by applying                   *)
(* adjust_taxbase_via_sale once for every lot the sale took shares from,   *)
(* in FIFO order, each time with the shares taken from that lot and that   *)
(* lot's cost basis: no lot is skipped and none is applied twice.          *)
(***************************************************************************)
C11_TaxBaseAdjustedOncePerLot ==
    SoldShares =>
        tax_base = adjust_for_transactions(last.tax_base_before, EntriesFrom(1),
                                           last.sale_price)

(***************************************************************************)
(* C12: adjust_tax_exemption(delta) raises ValueError when delta is not a  *)
(* number or when tax_exemption + delta would be negative, and then leaves *)
(* the TaxBase unchanged; otherwise it raises nothing, adds delta to       *)
(* tax_exemption and changes no other field.                               *)
(***************************************************************************)
C12_AdjustTaxExemption ==
    last.op = "adjust_tax_exemption" =>
        LET before == last.tax_base_before
            delta == last.amount
        IN  IF \/ delta.type \notin {"int", "float"}
               \/ RLt(RAdd(before.tax_exemption, delta.value), Zero)
            THEN /\ last.raised = "ValueError"
                 /\ tax_base = before
            ELSE /\ last.raised = "none"
                 /\ tax_base.tax_exemption = RAdd(before.tax_exemption, delta.value)
                 /\ tax_base.loss_pot = before.loss_pot
                 /\ tax_base.withheld_taxes = before.withheld_taxes
                 /\ tax_base.tax_rate = before.tax_rate

\* a number that would take the exemption below zero is refused after an earlier
\* adjustment had lowered the exemption
C12_Witness ==
    /\ last.op = "adjust_tax_exemption"
    /\ last.amount.type \in {"int", "float"}
    /\ last.raised = "ValueError"
    /\ RLt(Zero, last.tax_base_before.tax_exemption)
    /\ tax_base = last.tax_base_before

\* shares the most recent call added to the ledger
SharesBought == IF last.op = "buy_shares" THEN last.amount ELSE Zero

\* shares the most recent call sold, as its caller counts them: the shares asked
\* for in sell_shares, gross volume / price in sell_gross_volume, and the shares
\* of the transactions that sell_net_volume returned
SharesSold ==
    CASE last.op = "sell_shares" -> last.amount
      [] last.op = "sell_gross_volume" -> RDiv(last.amount, last.sale_price)
      [] last.op = "sell_net_volume" -> SumOfTransactions(last.transactions)
      [] OTHER -> Zero

SuccessfulLedgerCall ==
    /\ last.op \in {"buy_shares", "sell_shares", "sell_gross_volume", "sell_net_volume"}
    /\ last.raised = "none"

(***************************************************************************)
(* C13: determine_available_shares() is the sum of the share counts of the *)
(* lots in the ledger and 0 for a ledger without lots, and every buy and   *)
(* every successful sale changes it by exactly the shares bought minus the *)
(* shares sold, so that from the empty ledger it equals total shares       *)
(* bought minus total shares sold.                                         *)
(***************************************************************************)
C13_AvailableSharesIsBoughtMinusSold ==
    /\ determine_available_shares(fifo) = sum_shares(fifo)
    /\ fifo = <<>> => determine_available_shares(fifo) = Zero
    /\ SuccessfulLedgerCall =>
           determine_available_shares(fifo) =
               RSub(RAdd(determine_available_shares(last.fifo_before), SharesBought),
                    SharesSold)

\* the TaxBase that the i-th Portfolio sees, in a heap h
TaxBaseOf(h, i) == h[portfolios[i].tax_base]

(***************************************************************************)
(* C14: two Portfolio objects that were both constructed without a         *)
(* tax_base argument share no tax state: a successful sale on one of them  *)
(* leaves tax_exemption, loss_pot and withheld_taxes as seen by the other  *)
(* unchanged.                                                              *)
(***************************************************************************)
C14_DefaultTaxBaseNotShared ==
    (last.op = "sell_shares" /\ last.raised = "none") =>
        \A q \in 1..Len(portfolios) :
            (/\ q # last.portfolio
             /\ ~portfolios[q].tax_base_given
             /\ ~portfolios[last.portfolio].tax_base_given) =>
                /\ TaxBaseOf(heap, q).tax_exemption
                     = TaxBaseOf(last.heap_before, q).tax_exemption
                /\ TaxBaseOf(heap, q).loss_pot = TaxBaseOf(last.heap_before, q).loss_pot
                /\ TaxBaseOf(heap, q).withheld_taxes
                     = TaxBaseOf(last.heap_before, q).withheld_taxes

(***************************************************************************)
(* C18: constructing a Portfolio with initial_portfolio_value < 0 raises   *)
(* ValueError, and constructing one with initial_perc_gain <= -1 raises    *)
(* ValueError for every initial_portfolio_value >= 0, a gain of exactly -1 *)
(* included.                                                               *)
(***************************************************************************)
C18_ConstructorRejectsWithValueError ==
    last.op = "Portfolio" =>
        /\ RLt(last.initial_portfolio_value, Zero) => last.raised = "ValueError"
        /\ (/\ RLe(Zero, last.initial_portfolio_value)
            /\ RLe(last.initial_perc_gain, R(-1))) => last.raised = "ValueError"

\* positions (counted from 0) of the periods of a path whose value is below zero
NegativePeriods(series) == {i - 1 : i \in {j \in 1..Len(series) : series[j] < 0}}

(***************************************************************************)
(* C15: determine_portfolio_death(path) returns NaN exactly when no period *)
(* of the path has a value below zero, and otherwise the position of the   *)
(* first period whose value is below zero.                                 *)
(***************************************************************************)
C15_DeathIsFirstNegativePeriod ==
    last.op \in {"helpers.determine_portfolio_death",
                 "simulator.determine_portfolio_death"} =>
        IF NegativePeriods(last.argument) = {}
        THEN last.value.type = "float" /\ last.value.value = "nan"
        ELSE /\ last.value.type = "int"
             /\ last.value.value \in NegativePeriods(last.argument)
             /\ \A i \in NegativePeriods(last.argument) : last.value.value <= i

(***************************************************************************)
(* C16: the survival rule is the same in both modules: for every path,     *)
(* helpers.determine_survival and simulator.determine_survival return the  *)
(* same answer, and so do the two determine_portfolio_death functions      *)
(* built on them.                                                          *)
(***************************************************************************)
C16_SurvivalRuleSameInBothModules ==
    /\ last.op = "helpers.determine_survival" =>
           last.value = simulator_determine_survival(last.argument)
    /\ last.op = "simulator.determine_survival" =>
           last.value = determine_survival(last.argument)
    /\ last.op = "helpers.determine_portfolio_death" =>
           /\ last.value.type = simulator_determine_portfolio_death(last.argument).type
           /\ last.value.value = simulator_determine_portfolio_death(last.argument).value

\* number of paths of a list that have no period with a value below zero
NrWithoutNegative(list) ==
    Cardinality({i \in 1..Len(list) : NegativePeriods(list[i]) = {}})

(***************************************************************************)
(* C17: for every non-empty list of paths analyze_survival_probability     *)
(* returns the number of paths for which determine_survival is true        *)
(* divided by the number of paths, a value in [0, 1]; a path with a        *)
(* negative value is not among the survivors counted.                      *)
(***************************************************************************)
C17_SurvivalProbabilityIsShareOfSurvivors ==
    (last.op = "helpers.analyze_survival_probability" /\ last.argument # <<>>) =>
        LET list == last.argument
            survivors == {i \in 1..Len(list) : determine_survival(list[i])}
        IN  /\ last.raised = "none"
            /\ last.value = Rat(Cardinality(survivors), Len(list))
            /\ RLe(Zero, last.value) /\ RLe(last.value, R(1))
            /\ RLe(last.value, Rat(NrWithoutNegative(list), Len(list)))

\* two paths, one that survives and one that goes below zero: probability 1/2
C17_Witness ==
    /\ last.op = "helpers.analyze_survival_probability"
    /\ Len(last.argument) = 2
    /\ determine_survival(last.argument[1])
    /\ NegativePeriods(last.argument[2]) # {}
    /\ last.value = Rat(1, 2)

(***************************************************************************)
(* C19: determine_investment(cash_inflow, living_expenses, target, cap) is *)
(* max(min(cash_inflow - living_expenses, target), 0) with the cap and     *)
(* max(cash_inflow - living_expenses, 0) without it: never negative, and   *)
(* with the cap and target >= 0 never above target.                        *)
(***************************************************************************)
C19_InvestmentIsClampedSurplus ==
    last.op \in {"helpers.determine_investment", "simulator.determine_investment"} =>
        LET surplus == RSub(last.argument[1], last.argument[2])
            target == last.argument[3]
            cap == last.argument[4]
            capped == IF cap /\ RLt(target, surplus) THEN target ELSE surplus
        IN  /\ last.value = (IF RLt(capped, Zero) THEN Zero ELSE capped)
            /\ RLe(Zero, last.value)
            /\ (cap /\ RLe(Zero, target)) => RLe(last.value, target)

\* a surplus above the target is cut down to the target
C19_Witness ==
    /\ last.op = "helpers.determine_investment"
    /\ last.argument[4]
    /\ RLt(Zero, last.argument[3])
    /\ RLt(last.argument[3], RSub(last.argument[1], last.argument[2]))
    /\ last.value = last.argument[3]

ValuationsCreated ==
    last.op = "create_portfolio_valuations" /\ last.raised = "none"

(***************************************************************************)
(* C20: in create_portfolio_valuations the ending value worked out for a   *)
(* period is PF Beg + Investments - Disinvestments when the period's PF Beg*)
(* is below zero, whatever the return drawn for that period, and           *)
(* exp(log return) * PF Beg + Investments - Disinvestments when PF Beg is  *)
(* zero or more.                                                           *)
(***************************************************************************)
C20_NegativeBalanceIsNotCompounded ==
    ValuationsCreated =>
        /\ Len(last.rows) = Len(last.schedule)
        /\ \A i \in 1..Len(last.rows) :
               LET row == last.rows[i]
                   flows == RSub(last.schedule[i].investments,
                                 last.schedule[i].disinvestments)
               IN  IF RLt(row.pf_beg, Zero)
                   THEN row.pf_end = RAdd(row.pf_beg, flows)
                   ELSE row.pf_end =
                            RAdd(RMul(math_exp(last.log_returns[i]), row.pf_beg), flows)

\* a path that starts positive and is compounded by a return other than zero, then
\* starts its second period below zero with a return other than zero
C20_Witness ==
    /\ ValuationsCreated
    /\ Len(last.rows) = 2
    /\ RLt(Zero, last.rows[1].pf_beg)
    /\ last.log_returns[1] # 0
    /\ RLt(last.rows[2].pf_beg, Zero)
    /\ last.log_returns[2] # 0
    /\ last.rows[2].pf_end = RSub(last.rows[2].pf_beg, last.schedule[2].disinvestments)

(***************************************************************************)
(* C21: in every path returned by create_portfolio_valuations the recorded *)
(* values chain from period to period: the recorded PF Beg of the first    *)
(* period is the investor's current portfolio value, and the recorded PF   *)
(* Beg of every later period is the recorded PF End of the period before.  *)
(***************************************************************************)
C21_RecordedValuesChain ==
    ValuationsCreated =>
        /\ Len(last.df) = Len(last.schedule)
        /\ Len(last.df) > 0 => last.df[1].pf_beg = last.current_portfolio_value
        /\ \A i \in 2..Len(last.df) : last.df[i].pf_beg = last.df[i - 1].pf_end

RanSimulation == last.op = "run_simulation" /\ last.raised = "none"

(***************************************************************************)
(* C22: after any call run_simulation(n), also when it follows earlier     *)
(* run_simulation calls on the same Simulation, results holds exactly n    *)
(* paths, every path has the same Cashflow, Living expenses, Investments   *)
(* and Disinvestments columns as the schedule investments_disinvestments,  *)
(* and the runs leave the schedule as create_df_of_investments_and_        *)
(* disinvestments made it.                                                 *)
(***************************************************************************)
C22_ResultsHoldExactlyNPaths ==
    RanSimulation =>
        LET schedule == simulation.investments_disinvestments
            results == simulation.results
        IN  /\ Cardinality(DOMAIN results) = last.n
            /\ \A i \in DOMAIN results :
                   /\ Len(results[i]) = Len(schedule)
                   /\ \A k \in 1..Len(schedule) :
                          /\ results[i][k].cashflow = schedule[k].cashflow
                          /\ results[i][k].living_expenses = schedule[k].living_expenses
                          /\ results[i][k].investments = schedule[k].investments
                          /\ results[i][k].disinvestments = schedule[k].disinvestments
            /\ schedule =
                 create_df_of_investments_and_disinvestments(last.simulation_before)
                     .simulation.investments_disinvestments
            /\ last.simulation_before.schedule_created =>
                   schedule = last.simulation_before.investments_disinvestments

(***************************************************************************)
(* C23: a TaxBase that starts with tax_exemption >= 0, loss_pot >= 0,      *)
(* withheld_taxes >= 0 and 0 <= tax_rate < 1 keeps tax_exemption >= 0,     *)
(* loss_pot >= 0 and withheld_taxes >= 0 through any sequence of           *)
(* adjust_taxbase_via_sale calls (shares >= 0, any prices) and             *)
(* adjust_tax_exemption calls, successful or failed.                       *)
(***************************************************************************)
C23_BalancesStayNonNegative ==
    /\ RLe(Zero, tax_base.tax_exemption)
    /\ RLe(Zero, tax_base.loss_pot)
    /\ RLe(Zero, tax_base.withheld_taxes)

\* a sale at a gain above the loss pot and the exemption has emptied both and
\* withheld tax, and then a negative adjustment of the exemption was refused
C23_Witness ==
    /\ last.op = "adjust_tax_exemption"
    /\ last.raised = "ValueError"
    /\ last.amount.type \in {"int", "float"}
    /\ RLt(last.amount.value, Zero)
    /\ tax_base.tax_exemption = Zero
    /\ tax_base.loss_pot = Zero
    /\ RLt(Zero, tax_base.withheld_taxes)

TaxBaseSale == last.op = "adjust_taxbase_via_sale"

\* the gain (negative: the loss) of the sale that the most recent call applied
GainOfSale == RMul(last.amount, RSub(last.sale_price, last.historical_price))

(***************************************************************************)
(* C24 as stated: no call of adjust_taxbase_via_sale increases             *)
(* tax_exemption and none increases loss_pot, whatever the sale price and  *)
(* the cost basis.                                                         *)
(***************************************************************************)
C24_SalesNeverIncreaseAllowances ==
    TaxBaseSale =>
        /\ RLe(tax_base.tax_exemption, last.tax_base_before.tax_exemption)
        /\ RLe(tax_base.loss_pot, last.tax_base_before.loss_pot)

(***************************************************************************)
(* C24, amended: no call of adjust_taxbase_via_sale increases              *)
(* tax_exemption; a sale at or above the cost basis does not increase      *)
(* loss_pot; a sale below the cost basis adds its loss, shares * (cost     *)
(* basis - sale price), to loss_pot and leaves tax_exemption and           *)
(* withheld_taxes as they were.                                            *)
(***************************************************************************)
C24_OnlyLossesRaiseTheLossPot ==
    TaxBaseSale =>
        /\ RLe(tax_base.tax_exemption, last.tax_base_before.tax_exemption)
        /\ RLe(Zero, GainOfSale) =>
               RLe(tax_base.loss_pot, last.tax_base_before.loss_pot)
        /\ RLt(GainOfSale, Zero) =>
               /\ tax_base.loss_pot = RSub(last.tax_base_before.loss_pot, GainOfSale)
               /\ tax_base.tax_exemption = last.tax_base_before.tax_exemption
               /\ tax_base.withheld_taxes = last.tax_base_before.withheld_taxes

\* a sale at a loss on a TaxBase that already carried losses: the loss pot grew
C24_Witness ==
    /\ TaxBaseSale
    /\ RLt(GainOfSale, Zero)
    /\ RLt(Zero, last.tax_base_before.loss_pot)
    /\ RLt(last.tax_base_before.loss_pot, tax_base.loss_pot)

LedgerCall ==
    last.op \in {"buy_shares", "sell_shares", "sell_gross_volume", "sell_net_volume"}

\* the ids of the lots of a ledger
IdsOf(f) == {f[i].id : i \in 1..Len(f)}

(***************************************************************************)
(* C25: after any sequence of buys, sells and rolled-back sell_net_volume  *)
(* calls, buy_shares gives the new lot an id strictly greater than every   *)
(* id assigned before (the counter of assigned ids goes up by one with     *)
(* every buy and is changed by no sale and no rollback, and no lot has an  *)
(* id above it), the new lot is placed at the tail, and the ids of the     *)
(* lots in the ledger are strictly increasing from head to tail.           *)
(***************************************************************************)
C25_LotIdsAreFreshAndIncreasing ==
    /\ \A i \in 1..Len(fifo) : \A j \in (i + 1)..Len(fifo) : fifo[i].id < fifo[j].id
    /\ \A id \in IdsOf(fifo) : 1 <= id /\ id <= running_id
    /\ (LedgerCall /\ last.op # "buy_shares") => running_id = last.running_id_before
    /\ last.op = "buy_shares" =>
           /\ running_id = last.running_id_before + 1
           /\ Len(fifo) = Len(last.fifo_before) + 1
           /\ SubSeq(fifo, 1, Len(fifo) - 1) = last.fifo_before
           /\ fifo[Len(fifo)] = Lot(running_id, last.amount, last.historical_price)
           /\ \A id \in IdsOf(last.fifo_before) : id < fifo[Len(fifo)].id
           /\ fifo[Len(fifo)].id > last.running_id_before

\* a buy after the only lot was sold whole: the ledger holds fewer lots than ids
\* were assigned, and the new lot did not get the id of the lot that is gone
C25_Witness ==
    /\ last.op = "buy_shares"
    /\ last.fifo_before = <<>>
    /\ last.running_id_before > 0
    /\ fifo[1].id > 1
    /\ fifo[Len(fifo)].id = running_id
    /\ running_id > Len(fifo)

\* the lot that was at the head when the loop body last ran is no longer in the
\* ledger
HeadLotRemoved ==
    /\ last.fifo_at_body # <<>>
    /\ Head(last.fifo_at_body).id \notin IdsOf(fifo)

TargetReached == ~RLt(round2(last.net_proceeds), round2(last.target_net_proceeds))

(***************************************************************************)
(* C26: sell_net_volume terminates for every ledger reachable through      *)
(* buy_shares and sell operations, every target and every sale price >= 0, *)
(* with either partial_sale value: every run of the loop body ends the     *)
(* call, reaches the target (by the 2-decimal rounded comparison) or       *)
(* removes the head lot, and every call that was begun returns.            *)
(***************************************************************************)
C26_SellNetVolumeTerminates ==
    /\ []((InFrame /\ last.body_ran) => (Returned \/ TargetReached \/ HeadLotRemoved))
    /\ (Running ~> Returned)

(***************************************************************************)
(* C27: every unit of realised gain is accounted for exactly once: for     *)
(* every adjust_taxbase_via_sale call with gain = shares * (sale_price -   *)
(* cost basis) >= 0, gain = (decrease of loss_pot) + (decrease of          *)
(* tax_exemption) + (taxable amount returned), and the increase of         *)
(* withheld_taxes is tax_rate times that taxable amount.                   *)
(***************************************************************************)
C27_GainAccountedForOnce ==
    (TaxBaseSale /\ RLe(Zero, GainOfSale)) =>
        LET before == last.tax_base_before
            taxable == last.value
        IN  /\ GainOfSale =
                 RAdd(RAdd(RSub(before.loss_pot, tax_base.loss_pot),
                           RSub(before.tax_exemption, tax_base.tax_exemption)),
                      taxable)
            /\ RSub(tax_base.withheld_taxes, before.withheld_taxes) =
                 RMul(before.tax_rate, taxable)

\* a gain of which the loss pot, the exemption and the tax each take a part
C27_Witness ==
    /\ TaxBaseSale
    /\ RLt(Zero, RSub(last.tax_base_before.loss_pot, tax_base.loss_pot))
    /\ RLt(Zero, RSub(last.tax_base_before.tax_exemption, tax_base.tax_exemption))
    /\ RLt(Zero, last.value)
    /\ RLt(last.value, GainOfSale)
    /\ RLt(Zero, last.tax_base_before.tax_rate)

(***************************************************************************)
(* C28: for every call of sell_net_volume with partial_sale=True, and for  *)
(* every call with partial_sale=False that reaches its target, the         *)
(* returned transactions account for every share that left the ledger:     *)
(* available shares before the call minus available shares after the call  *)
(* is the sum of the share counts of the returned transactions.            *)
(***************************************************************************)
C28_TransactionsAccountForSharesSold ==
    (/\ last.op = "sell_net_volume"
     /\ last.raised = "none"
     /\ last.partial_sale \/ last.outcome = "reached") =>
        RSub(determine_available_shares(last.fifo_before),
             determine_available_shares(fifo))
            = SumOfTransactions(last.transactions)

QueryCall == last.op # "init" /\ last.outcome = "query"

(***************************************************************************)
(* C29: the hypothetical queries never change state: determine_taxable,    *)
(* calculate_taxes, determine_net_proceeds,                                *)
(* determine_tax_exemption_and_loss_pot and nr_shares_for_net_proceeds     *)
(* leave tax_exemption, loss_pot and withheld_taxes unchanged, also when   *)
(* they raise, and determine_available_shares, determine_portfolio_value   *)
(* and determine_next_available_net_proceeds leave the lots and the        *)
(* TaxBase unchanged.                                                      *)
(***************************************************************************)
C29_QueriesChangeNothing ==
    QueryCall =>
        /\ tax_base = last.tax_base_before
        /\ fifo = last.fifo_before
        /\ running_id = last.running_id_before

\* determine_tax_exemption_and_loss_pot, asked on a ledger with lots about a sale
\* that would use up the exemption and be taxed: it reports balances other than
\* those of the TaxBase and leaves the TaxBase as it was
C29_Witness ==
    /\ last.op = "determine_tax_exemption_and_loss_pot"
    /\ QueryCall
    /\ fifo # <<>>
    /\ RLt(Zero, tax_base.tax_exemption)
    /\ last.value[1] = Zero
    /\ RLt(tax_base.withheld_taxes, last.value[3])
    /\ tax_base = last.tax_base_before

WithheldBy(call) == RSub(tax_base.withheld_taxes, call.tax_base_before.withheld_taxes)

RecomputedTaxes(call) ==
    determine_taxes_for_transactions(call.transactions, call.sale_price,
                                     call.tax_base_before.tax_rate,
                                     call.tax_base_before.tax_exemption)

(***************************************************************************)
(* C30: the taxes reported for a sale agree with the taxes the ledger      *)
(* withheld: for every sell_shares whose TaxBase starts with loss_pot = 0, *)
(* determine_taxes_for_transactions on the returned transactions, with the *)
(* same tax rate and the tax_exemption from before the sale, returns an    *)
(* absolute tax equal to the increase of withheld_taxes, for any mix of    *)
(* lots sold at a gain and lots sold at a loss.                            *)
(***************************************************************************)
C30_RecomputedTaxesAgreeWithWithheld ==
    (/\ last.op = "sell_shares"
     /\ last.raised = "none"
     /\ last.tax_base_before.loss_pot = Zero) =>
        /\ RecomputedTaxes(last).raised = "none"
        /\ RecomputedTaxes(last).abs = WithheldBy(last)

====
